---------------------------- MODULE Spec2Model ----------------------------
(***************************************************************************)
(* Delivery-plan forecasting and reconciliation of the kerosene delivery   *)
(* app: src/src/logic/forecast.ts (the forecast pipeline) and              *)
(* src/src/db.ts (the plan store and buildMonthlyPlanByThreshold).         *)
(*                                                                         *)
(* Dates.  A 'YYYY-MM-DD' string is modelled by the number its digits      *)
(* spell, YYYYMMDD: both are fixed-width digit strings, so the string      *)
(* comparisons of the code (<, <=, >=, sort()) are the comparisons of      *)
(* these numbers, and slice(0,4) / slice(5,7) are YearOf / MonthOf.  A     *)
(* Date object is modelled by its JST day number (days since 1970-01-01);  *)
(* the code builds every Date at JST midnight and the local time zone is   *)
(* taken to be JST, which has no daylight saving time (src/src/utils/      *)
(* sync.ts:74).                                                            *)
(*                                                                         *)
(* Numbers.  The shares of calcMonthlyWeights are modelled as exact        *)
(* fractions num[i] / den, and Math.round(p / q) as floor(p/q + 1/2).      *)
(***************************************************************************)
EXTENDS Integers, Sequences, FiniteSets, TLC

VARIABLES
    now,        \* the JST calendar day of the wall clock (new Date())
    customers,  \* db.customers: the rows {id, tankType}, in primary-key order
    orders,     \* db.orders: the rows, in primary-key order
    plans,      \* db.plans: the set of PlanRecord rows
    run,        \* buildMonthlyPlanByThreshold: each invocation's position and locals
    call        \* the call in progress besides the batch: a forecast function's
                \* arguments, position and result, or a History handler's position

vars == <<now, customers, orders, plans, run, call>>

(***************************************************************************)
(* Sequence helpers                                                        *)
(***************************************************************************)
RECURSIVE SumSeq(_)
SumSeq(s) == IF s = <<>> THEN 0 ELSE Head(s) + SumSeq(Tail(s))

Range(s) == {s[i] : i \in DOMAIN s}

\* Array.prototype.sort() on date strings: ascending, duplicates kept.
RECURSIVE InsertSorted(_, _)
InsertSorted(x, s) ==
    IF s = <<>> THEN <<x>>
    ELSE IF x <= Head(s) THEN <<x>> \o s
    ELSE <<Head(s)>> \o InsertSorted(x, Tail(s))

RECURSIVE sortYmd(_)
sortYmd(s) == IF s = <<>> THEN <<>> ELSE InsertSorted(Head(s), sortYmd(Tail(s)))

\* The elements of a finite set of numbers in ascending order.
RECURSIVE SetToSortedSeq(_)
SetToSortedSeq(S) ==
    IF S = {} THEN <<>>
    ELSE LET m == CHOOSE x \in S : \A y \in S : x <= y
         IN <<m>> \o SetToSortedSeq(S \ {m})

\* Math.round(p / q) for q > 0: the nearest integer, halves upwards.
MathRound(p, q) == (2 * p + q) \div (2 * q)

(***************************************************************************)
(* Date utilities (db.ts 87-107, forecast.ts 17-30)                        *)
(***************************************************************************)
MkYmd(y, m, d) == y * 10000 + m * 100 + d
YearOf(ymd) == ymd \div 10000
MonthOf(ymd) == (ymd \div 100) % 100
DayOf(ymd) == ymd % 100

\* /^\d{4}-\d{2}-\d{2}$/ : four, two and two decimal digits.
ISO_YMD(s) == s \in 0..99999999

IsLeapYear(y) == (y % 4 = 0 /\ y % 100 # 0) \/ y % 400 = 0

\* new Date(year, month, 0).getDate()
DaysInMonth(y, m) ==
    IF m = 2 THEN (IF IsLeapYear(y) THEN 29 ELSE 28)
    ELSE IF m \in {4, 6, 9, 11} THEN 30 ELSE 31

\* The day number of a civil date (proleptic Gregorian calendar).
DayNumber(y, m, d) ==
    LET yy  == IF m <= 2 THEN y - 1 ELSE y
        era == yy \div 400
        yoe == yy - era * 400
        mp  == IF m > 2 THEN m - 3 ELSE m + 9
        doy == (153 * mp + 2) \div 5 + d - 1
        doe == yoe * 365 + yoe \div 4 - yoe \div 100 + doy
    IN era * 146097 + doe - 719468

\* new Date(`${ymd}T00:00:00+09:00`)
parseYmd(ymd) == DayNumber(YearOf(ymd), MonthOf(ymd), DayOf(ymd))

\* new Date(d.getTime() + 9h).toISOString().slice(0, 10)
jstYmdFromDate(z) ==
    LET zz  == z + 719468
        era == zz \div 146097
        doe == zz - era * 146097
        yoe == (doe - doe \div 1460 + doe \div 36524 - doe \div 146096) \div 365
        doy == doe - (365 * yoe + yoe \div 4 - yoe \div 100)
        mp  == (5 * doy + 2) \div 153
        d   == doy - (153 * mp + 2) \div 5 + 1
        m   == IF mp < 10 THEN mp + 3 ELSE mp - 9
        y   == yoe + era * 400 + (IF m <= 2 THEN 1 ELSE 0)
    IN MkYmd(y, m, d)

addDaysYmd(ymd, days) == jstYmdFromDate(parseYmd(ymd) + days)

maxYmd(a, b) == IF a >= b THEN a ELSE b

(***************************************************************************)
(* The forecast pipeline (forecast.ts)                                     *)
(***************************************************************************)
Months == 1..12

\* 1. splitHistoryByYear: year -> that year's dates, ascending.
splitHistoryByYear(historyDates, baseYear, maxYearsBack) ==
    LET minYear == baseYear - maxYearsBack
        keep(d) == /\ ISO_YMD(d)
                   /\ ~(YearOf(d) > baseYear)
                   /\ ~(YearOf(d) < minYear)
        kept    == SelectSeq(historyDates, keep)
        years   == {YearOf(d) : d \in Range(kept)}
    IN [y \in years |-> LET ofYear(d) == YearOf(d) = y
                        IN sortYmd(SelectSeq(kept, ofYear))]

\* 2. calcYearlyCounts: {year, count} per year, ascending by year.
calcYearlyCounts(byYear) ==
    LET ys == SetToSortedSeq(DOMAIN byYear)
    IN [i \in 1..Len(ys) |-> [year |-> ys[i], count |-> Len(byYear[ys[i]])]]

\* yearlyCounts.find(y => y.year === baseYear)?.count ?? 0
lastYearCountOf(yearlyCounts, baseYear) ==
    LET hits == {i \in DOMAIN yearlyCounts : yearlyCounts[i].year = baseYear}
    IN IF hits = {} THEN 0
       ELSE yearlyCounts[CHOOSE i \in hits : \A j \in hits : i <= j].count

\* Math.round(sum of the counts / number of years)
roundedAverage(yearlyCounts) ==
    MathRound(SumSeq([i \in DOMAIN yearlyCounts |-> yearlyCounts[i].count]),
              Len(yearlyCounts))

\* Math.floor(lastYearCount * 0.85) and Math.ceil(lastYearCount * 1.3)
minAllowedOf(lastYearCount) == (lastYearCount * 85) \div 100
maxAllowedOf(lastYearCount) == -((-(lastYearCount * 13)) \div 10)

\* A clamp that forgets the fall-back to lastYearCount.
clampTargetNoFallback(target, lastYearCount) ==
    LET t1 == IF target < minAllowedOf(lastYearCount)
              THEN minAllowedOf(lastYearCount) ELSE target
    IN IF t1 > maxAllowedOf(lastYearCount) THEN maxAllowedOf(lastYearCount) ELSE t1

\* The three ifs that bound the target.
clampTarget(target, lastYearCount) ==
    LET t1 == IF target < minAllowedOf(lastYearCount)
              THEN minAllowedOf(lastYearCount) ELSE target
        t2 == IF t1 > maxAllowedOf(lastYearCount)
              THEN maxAllowedOf(lastYearCount) ELSE t1
    IN IF t2 <= 0 THEN lastYearCount ELSE t2

\* 3. decideTargetYearCount
decideTargetYearCount(yearlyCounts, baseYear) ==
    IF Len(yearlyCounts) = 0 THEN 0
    ELSE LET lastYearCount == lastYearCountOf(yearlyCounts, baseYear)
         IN IF lastYearCount <= 0 THEN roundedAverage(yearlyCounts)
            ELSE clampTarget(roundedAverage(yearlyCounts), lastYearCount)

\* The default weights 0.7 and 0.3, in tenths.
wLast == 7
wPast == 3

\* How many of the dates fall in each month (months outside 1..12 are skipped).
monthHistogram(dates) ==
    [m \in Months |->
        Cardinality({i \in DOMAIN dates : ISO_YMD(dates[i]) /\ MonthOf(dates[i]) = m})]

\* 4. calcMonthlyWeights: the twelve shares, as num[m] / den.
calcMonthlyWeights(byYear, baseYear) ==
    LET hist == [y \in DOMAIN byYear |-> monthHistogram(byYear[y])]
        last == [m \in Months |-> IF baseYear \in DOMAIN byYear THEN hist[baseYear][m] ELSE 0]
        past == [m \in Months |->
                    SumSeq([i \in 1..Len(SetToSortedSeq(DOMAIN byYear \ {baseYear})) |->
                        hist[SetToSortedSeq(DOMAIN byYear \ {baseYear})[i]][m]])]
        weights == [m \in Months |-> wLast * last[m] + wPast * past[m]]
        sum == SumSeq(weights)
    IN IF sum <= 0 THEN [num |-> [m \in Months |-> 1], den |-> 12]
       ELSE [num |-> weights, den |-> sum]

\* A loop that hands out a positive remainder and forgets a negative one.
RECURSIVE redistributeUpOnly(_, _, _)
redistributeUpOnly(monthly, diff, idx) ==
    IF diff > 0 /\ idx < 36
    THEN redistributeUpOnly([monthly EXCEPT ![(idx % 12) + 1] = @ + 1], diff - 1, idx + 1)
    ELSE [monthly |-> monthly, diff |-> diff, idx |-> idx]

\* const limit = 12 * 3
limit == 36

\* The while loop of makeMonthlyTargets, from (monthly, diff, idx) to its exit.
RECURSIVE redistribute(_, _, _)
redistribute(monthly, diff, idx) ==
    IF diff # 0 /\ idx < limit
    THEN LET i == (idx % 12) + 1
         IN IF diff > 0
            THEN redistribute([monthly EXCEPT ![i] = @ + 1], diff - 1, idx + 1)
            ELSE IF diff < 0 /\ monthly[i] > 0
            THEN redistribute([monthly EXCEPT ![i] = @ - 1], diff + 1, idx + 1)
            ELSE redistribute(monthly, diff, idx + 1)
    ELSE [monthly |-> monthly, diff |-> diff, idx |-> idx]

\* raw.map(x => Math.round(x)) with raw = share * targetYearCount
roundedShares(targetYearCount, shares) ==
    [m \in Months |-> MathRound(shares.num[m] * targetYearCount, shares.den)]

\* makeMonthlyTargets up to its return, keeping the loop's last diff and idx.
monthlyTargetsLoop(targetYearCount, shares) ==
    IF targetYearCount <= 0
    THEN [monthly |-> [m \in Months |-> 0], diff |-> 0, idx |-> 0]
    ELSE LET monthly == roundedShares(targetYearCount, shares)
         IN redistribute(monthly, targetYearCount - SumSeq(monthly), 0)

\* 5. makeMonthlyTargets
makeMonthlyTargets(targetYearCount, shares) ==
    monthlyTargetsLoop(targetYearCount, shares).monthly

\* A spacing that rounds down.
spacedDayFloored(daysInMonth, count, i) == ((2 * i + 1) * daysInMonth) \div (2 * count)

\* The day of the i-th of count dates (i from 0) before it is clamped:
\* Math.round(i * step + step / 2) with step = daysInMonth / count.
spacedDay(daysInMonth, count, i) == MathRound((2 * i + 1) * daysInMonth, 2 * count)

\* The clamp left out: the rounded day as it comes.
clampDayNone(day, daysInMonth) == day

\* Math.min(Math.max(day, 1), daysInMonth)
clampDay(day, daysInMonth) ==
    LET lo == IF day > 1 THEN day ELSE 1
    IN IF lo < daysInMonth THEN lo ELSE daysInMonth

\* 6. generateDatesForMonth
generateDatesForMonth(year, month, count) ==
    IF count <= 0 THEN <<>>
    ELSE LET daysInMonth == DaysInMonth(year, month)
         IN [k \in 1..count |->
                MkYmd(year, month, clampDay(spacedDay(daysInMonth, count, k - 1), daysInMonth))]

\* A default start that is the day of the call.
startYmdOfClock(startFromYmd, baseYear) ==
    IF ISO_YMD(startFromYmd) THEN startFromYmd ELSE now

\* startFromYmd && ISO_YMD.test(startFromYmd) ? startFromYmd : `${baseYear + 1}-01-01`
startYmdOf(startFromYmd, baseYear) ==
    IF ISO_YMD(startFromYmd) THEN startFromYmd ELSE MkYmd(baseYear + 1, 1, 1)

\* The walk's exit test: new Date(y, m - 1, 1) > endDate
monthStartAfter(y, m, endDate) == DayNumber(y, m, 1) > endDate

\* The walk's step to the following month.
nextMonthOf(y, m) == IF m = 12 THEN [y |-> y + 1, m |-> 1] ELSE [y |-> y, m |-> m + 1]

\* The while (true) loop of buildPlanFromHistory, from month (y, m) on.
RECURSIVE walkMonths(_, _, _, _, _)
walkMonths(y, m, endDate, monthlyCounts, plannedDatesAll) ==
    IF monthStartAfter(y, m, endDate) THEN plannedDatesAll
    ELSE walkMonths(nextMonthOf(y, m).y, nextMonthOf(y, m).m, endDate, monthlyCounts,
                    plannedDatesAll \o generateDatesForMonth(y, m, monthlyCounts[m]))

\* A filter that keeps the dates before the start.
filterToHorizonNoStart(plannedDatesAll, startYmd, endYmd) ==
    LET inRange(d) == d <= endYmd
    IN sortYmd(SelectSeq(plannedDatesAll, inRange))

\* plannedDatesAll.filter(d => d >= startYmd && d <= endYmd).sort()
filterToHorizon(plannedDatesAll, startYmd, endYmd) ==
    LET inRange(d) == d >= startYmd /\ d <= endYmd
    IN sortYmd(SelectSeq(plannedDatesAll, inRange))

MAX_YEARS_BACK == 3

\* The three throws of buildPlanFromHistory.
buildPlanThrows(historyDates, baseYear) ==
    LET yearlyCounts == calcYearlyCounts(splitHistoryByYear(historyDates, baseYear, MAX_YEARS_BACK))
    IN \/ Len(historyDates) = 0
       \/ Len(yearlyCounts) = 0
       \/ lastYearCountOf(yearlyCounts, baseYear) <= 0

\* 7. buildPlanFromHistory (when it does not throw)
buildPlanFromHistory(historyDates, baseYear, startFromYmd, horizonDays) ==
    LET byYear          == splitHistoryByYear(historyDates, baseYear, MAX_YEARS_BACK)
        yearlyCounts    == calcYearlyCounts(byYear)
        targetYearCount == decideTargetYearCount(yearlyCounts, baseYear)
        shares          == calcMonthlyWeights(byYear, baseYear)
        monthlyCounts   == makeMonthlyTargets(targetYearCount, shares)
        startYmd        == startYmdOf(startFromYmd, baseYear)
        endYmd          == addDaysYmd(startYmd, horizonDays)
        startDate       == parseYmd(startYmd)
        endDate         == parseYmd(endYmd)
        y0              == YearOf(jstYmdFromDate(startDate))
        m0              == MonthOf(jstYmdFromDate(startDate))
    IN [targetYearCount |-> targetYearCount,
        monthlyCounts   |-> monthlyCounts,
        plannedDates    |-> filterToHorizon(walkMonths(y0, m0, endDate, monthlyCounts, <<>>),
                                            startYmd, endYmd)]

(***************************************************************************)
(* The stores and the batch at rest: the state of the specifications that  *)
(* exercise one forecast function.                                         *)
(***************************************************************************)
NoCall == [fn |-> "none"]

StoresAtRest ==
    /\ now = 20250220
    /\ customers = <<>>
    /\ orders = <<>>
    /\ plans = {}
    /\ run = <<>>

(***************************************************************************)
(* makeMonthlyTargets on its own                                           *)
(***************************************************************************)
MaxTarget == 12
MaxShareNum == 3

\* Equal shares over any non-empty choice of months.
EvenShareNums ==
    {[m \in Months |-> IF m \in S THEN 1 ELSE 0] : S \in (SUBSET Months) \ {{}}}

\* Unequal shares over at most three months.
SparseShareNums ==
    {[m \in Months |-> IF m = a THEN x ELSE IF m = b THEN y ELSE IF m = c THEN z ELSE 0] :
        <<a, b, c>> \in {t \in Months \X Months \X Months : t[1] < t[2] /\ t[2] < t[3]},
        <<x, y, z>> \in (0..MaxShareNum) \X (0..MaxShareNum) \X (0..MaxShareNum)}

\* Twelve non-negative shares that sum to 1.
ShareVectors ==
    {[num |-> n, den |-> SumSeq(n)] : n \in {v \in EvenShareNums \cup SparseShareNums : SumSeq(v) > 0}}

InitMonthly ==
    /\ StoresAtRest
    /\ \E t \in 0..MaxTarget, sh \in ShareVectors :
          call = [fn |-> "makeMonthlyTargets", pc |-> "called",
                  targetYearCount |-> t, shares |-> sh,
                  monthlyCounts |-> <<>>, diff |-> 0, idx |-> 0]

ReturnMonthlyTargets ==
    /\ call.fn = "makeMonthlyTargets" /\ call.pc = "called"
    /\ call' = [call EXCEPT
                  !.pc = "returned",
                  !.monthlyCounts = makeMonthlyTargets(call.targetYearCount, call.shares),
                  !.diff = monthlyTargetsLoop(call.targetYearCount, call.shares).diff,
                  !.idx = monthlyTargetsLoop(call.targetYearCount, call.shares).idx]
    /\ UNCHANGED <<now, customers, orders, plans, run>>

NextMonthly == ReturnMonthlyTargets

SpecMonthly == InitMonthly /\ [][NextMonthly]_vars

(***************************************************************************)
(* decideTargetYearCount on its own                                        *)
(***************************************************************************)
MaxYearCount == 8

\* The years of the look-back window of base year 2024.
WindowYears == 2021..2024

\* Counts for any choice of the window's years (-1: the year is absent).
YearlyCountInputs ==
    {LET ys == SetToSortedSeq({y \in WindowYears : f[y] >= 0})
     IN [i \in 1..Len(ys) |-> [year |-> ys[i], count |-> f[ys[i]]]] :
        f \in [WindowYears -> -1..MaxYearCount]}

InitTarget ==
    /\ StoresAtRest
    /\ \E yc \in YearlyCountInputs :
          call = [fn |-> "decideTargetYearCount", pc |-> "called",
                  yearlyCounts |-> yc, baseYear |-> 2024, targetYearCount |-> 0]

ReturnTargetYearCount ==
    /\ call.fn = "decideTargetYearCount" /\ call.pc = "called"
    /\ call' = [call EXCEPT
                  !.pc = "returned",
                  !.targetYearCount = decideTargetYearCount(call.yearlyCounts, call.baseYear)]
    /\ UNCHANGED <<now, customers, orders, plans, run>>

NextTarget == ReturnTargetYearCount

SpecTarget == InitTarget /\ [][NextTarget]_vars

(***************************************************************************)
(* generateDatesForMonth on its own                                        *)
(***************************************************************************)
MaxCount == 33

InitDates ==
    /\ StoresAtRest
    /\ \E y \in {2024, 2025}, m \in Months, c \in -1..MaxCount :
          call = [fn |-> "generateDatesForMonth", pc |-> "called",
                  year |-> y, month |-> m, count |-> c, dates |-> <<>>]

ReturnDatesForMonth ==
    /\ call.fn = "generateDatesForMonth" /\ call.pc = "called"
    /\ call' = [call EXCEPT
                  !.pc = "returned",
                  !.dates = generateDatesForMonth(call.year, call.month, call.count)]
    /\ UNCHANGED <<now, customers, orders, plans, run>>

NextDates == ReturnDatesForMonth

SpecDates == InitDates /\ [][NextDates]_vars

(***************************************************************************)
(* buildPlanFromHistory on its own, its month-by-month walk one iteration  *)
(* at a time                                                               *)
(***************************************************************************)
MaxPerMonth == 29
MaxPastPerMonth == 2

\* Deliveries on the first n days of a month (on all its days, if n is more).
MonthBlock(y, m, n) ==
    [i \in 1..(IF n < DaysInMonth(y, m) THEN n ELSE DaysInMonth(y, m)) |-> MkYmd(y, m, i)]

\* Histories: a month of the base year 2024 with up to MaxPerMonth
\* deliveries (none: no base-year record), then a month of an earlier year.
HistoryInputs ==
    {MonthBlock(2024, m1, n1) \o MonthBlock(y2, m2, n2) :
        m1 \in {1, 2, 12}, n1 \in 0..MaxPerMonth,
        y2 \in {2020, 2023}, m2 \in {2, 7}, n2 \in 0..MaxPastPerMonth}

\* Start dates (-1: startFromYmd is not given) and horizons.
StartInputs == {-1, 20250220, 20251231, 20271215}
HorizonInputs == {-3, 40, 370}

InitPlan ==
    /\ StoresAtRest
    /\ \E h \in HistoryInputs, st \in StartInputs, hz \in HorizonInputs :
          call = [fn |-> "buildPlanFromHistory", pc |-> "called",
                  historyDates |-> h, baseYear |-> 2024,
                  startFromYmd |-> st, horizonDays |-> hz,
                  targetYearCount |-> 0, monthlyCounts |-> <<>>,
                  startYmd |-> 0, endYmd |-> 0, endDate |-> 0, y |-> 0, m |-> 0,
                  plannedDatesAll |-> <<>>, plannedDates |-> <<>>]

\* Lines 217-251: the checks that throw, the targets, and the walk's first month.
PlanEnter ==
    /\ call.fn = "buildPlanFromHistory" /\ call.pc = "called"
    /\ IF buildPlanThrows(call.historyDates, call.baseYear)
       THEN call' = [call EXCEPT !.pc = "threw"]
       ELSE LET byYear   == splitHistoryByYear(call.historyDates, call.baseYear, MAX_YEARS_BACK)
                target   == decideTargetYearCount(calcYearlyCounts(byYear), call.baseYear)
                startYmd == startYmdOf(call.startFromYmd, call.baseYear)
                endYmd   == addDaysYmd(startYmd, call.horizonDays)
                start    == jstYmdFromDate(parseYmd(startYmd))
            IN call' = [call EXCEPT
                          !.pc = "walking",
                          !.targetYearCount = target,
                          !.monthlyCounts =
                              makeMonthlyTargets(target, calcMonthlyWeights(byYear, call.baseYear)),
                          !.startYmd = startYmd,
                          !.endYmd = endYmd,
                          !.endDate = parseYmd(endYmd),
                          !.y = YearOf(start),
                          !.m = MonthOf(start)]
    /\ UNCHANGED <<now, customers, orders, plans, run>>

\* One iteration of the while (true) loop that does not break.
PlanWalkMonth ==
    /\ call.fn = "buildPlanFromHistory" /\ call.pc = "walking"
    /\ ~monthStartAfter(call.y, call.m, call.endDate)
    /\ call' = [call EXCEPT
                  !.plannedDatesAll =
                      @ \o generateDatesForMonth(call.y, call.m, call.monthlyCounts[call.m]),
                  !.y = nextMonthOf(call.y, call.m).y,
                  !.m = nextMonthOf(call.y, call.m).m]
    /\ UNCHANGED <<now, customers, orders, plans, run>>

\* The break, the filter and the sort, and the return.
PlanReturn ==
    /\ call.fn = "buildPlanFromHistory" /\ call.pc = "walking"
    /\ monthStartAfter(call.y, call.m, call.endDate)
    /\ call' = [call EXCEPT
                  !.pc = "returned",
                  !.plannedDates = filterToHorizon(call.plannedDatesAll, call.startYmd, call.endYmd)]
    /\ UNCHANGED <<now, customers, orders, plans, run>>

NextPlan == PlanEnter \/ PlanWalkMonth \/ PlanReturn

SpecPlan == InitPlan /\ [][NextPlan]_vars

(***************************************************************************)
(* The stores of db.ts and the reconciliation batch                        *)
(*                                                                         *)
(* An order row is [customerId, date]; a date that fails ISO_YMD (an empty *)
(* or malformed string) is modelled by -1.  A plan row is the PlanRecord   *)
(* {id, dateISO, customerId}; its id 'dateISO#customerId' is modelled by   *)
(* the pair <<dateISO, customerId>>.  tankType is "A", "B", "C" or "none"  *)
(* (undefined).                                                            *)
(***************************************************************************)

\* db.orders.where('customerId').equals(customerId).toArray()
ordersOfCustomer(customerId) ==
    SelectSeq(orders, LAMBDA o : o.customerId = customerId)

\* o?.date && ISO_YMD.test(o.date)
hasIsoDate(o) == ISO_YMD(o.date)

RECURSIVE lastOf(_, _)
lastOf(list, last) ==
    IF list = <<>> THEN last
    ELSE lastOf(Tail(list),
                IF hasIsoDate(Head(list))
                THEN (IF last # -1 THEN maxYmd(last, Head(list).date) ELSE Head(list).date)
                ELSE last)

\* The latest valid delivery date of the customer; -1 models null.
getLastDeliveredYmd(customerId) == lastOf(ordersOfCustomer(customerId), -1)

\* A window that leaves out its first year.
getHistoryDatesAfterMinYear(customerId, baseYear, maxYearsBack) ==
    LET rows    == ordersOfCustomer(customerId)
        minYear == baseYear - maxYearsBack
        kept(o) == /\ hasIsoDate(o)
                   /\ ~(YearOf(o.date) > baseYear)
                   /\ ~(YearOf(o.date) <= minYear)
        out     == SelectSeq(rows, kept)
    IN sortYmd([k \in 1..Len(out) |-> out[k].date])

getHistoryDatesForCustomer(customerId, baseYear, maxYearsBack) ==
    LET rows    == ordersOfCustomer(customerId)
        minYear == baseYear - maxYearsBack
        kept(o) == /\ hasIsoDate(o)
                   /\ ~(YearOf(o.date) > baseYear)
                   /\ ~(YearOf(o.date) < minYear)
        out     == SelectSeq(rows, kept)
    IN sortYmd([k \in 1..Len(out) |-> out[k].date])

\* A filter that finds no delivery of the base year.
baseYearDatesNone(historyDates, baseYear) == <<>>

\* historyDates.filter(d => d.slice(0, 4) === String(baseYear))
baseYearDatesOf(historyDates, baseYear) ==
    SelectSeq(historyDates, LAMBDA d : YearOf(d) = baseYear)

\* A cycle table without the entry of tank C.
cycleDaysFromTankNoC(t, fallback) ==
    CASE t = "A" -> 38
      [] t = "B" -> 42
      [] OTHER   -> fallback

cycleDaysFromTank(t, fallback) ==
    CASE t = "A" -> 38
      [] t = "B" -> 42
      [] t = "C" -> 51
      [] OTHER   -> fallback

planId(dateISO, customerId) == <<dateISO, customerId>>

PlanRecord(dateISO, customerId) ==
    [id |-> planId(dateISO, customerId), dateISO |-> dateISO, customerId |-> customerId]

\* A store that adds the row under a fresh key instead of replacing the
\* row of the same id.
addPlanRow(table, dateISO, customerId) ==
    table \cup {[id |-> <<dateISO, customerId, Cardinality(table)>>,
                 dateISO |-> dateISO, customerId |-> customerId]}

\* db.plans.put(row): the row replaces the row of the same primary key.
putPlanRow(table, dateISO, customerId) ==
    {p \in table : p.id # planId(dateISO, customerId)}
        \cup {PlanRecord(dateISO, customerId)}

\* A query without the customerId index: every row of the table.
plansOfEveryCustomer(customerId) == plans

\* db.plans.where('customerId').equals(customerId).toArray()
plansOfCustomer(customerId) == {p \in plans : p.customerId = customerId}

\* A delete without the date filter: every row of the customer.
everyDelId(all, fromYmd) == {p.id : p \in all}

\* A delete that finds nothing to delete.
noDelId(all, fromYmd) == {}

\* deleteFuturePlansForCustomer: all.filter(p => p.dateISO >= fromYmd).map(p => p.id)
futureDelIds(all, fromYmd) == {p.id : p \in {q \in all : q.dateISO >= fromYmd}}

\* A delete-all that finds nothing to delete.
noPlanId(all) == {}

\* deleteAllPlansForCustomer: all.map(p => p.id)
allPlanIds(all) == {p.id : p \in all}

\* A bulkDelete that deletes nothing.
bulkDeleteNothing(table, ids) == table

\* db.plans.bulkDelete(ids)
bulkDeletePlans(table, ids) == {p \in table : p.id \notin ids}

\* purgePlansForCustomer(customerId, scope, fromYmd): the plan store it leaves.
purgePlansForCustomer(customerId, scope, fromYmd) ==
    LET all     == plansOfCustomer(customerId)
        targets == IF scope = "all" THEN all ELSE {p \in all : p.dateISO >= fromYmd}
    IN bulkDeletePlans(plans, {p.id : p \in targets})

\* The dates of plannedDates that the forecast branch upserts.
upsertableDates(plannedDates, today) ==
    SelectSeq(plannedDates, LAMBDA dateISO : ISO_YMD(dateISO) /\ ~(dateISO < today))

\* while (next <= today) next = addDaysYmd(next, cycle)
RECURSIVE skipToAfter(_, _, _)
skipToAfter(next, today, cycle) ==
    IF next <= today THEN skipToAfter(addDaysYmd(next, cycle), today, cycle) ELSE next

\* The batch invocations that can exist.
Runs == {"r1"}

\* No invocation: the locals of buildMonthlyPlanByThreshold, unset.
IdleRun ==
    [pc |-> "idle", today |-> 0, horizonDays |-> 0, horizonEnd |-> 0,
     fallbackCycleDays |-> 0, maxYearsBack |-> 0, baseYear |-> 0,
     customers |-> <<>>, i |-> 0, historyDates |-> <<>>, delIds |-> {},
     pending |-> <<>>, last |-> 0, next |-> 0, cycle |-> 0]

AllIdle == \A r \in Runs : run[r].pc = "idle"

\* The customer of the current iteration of the for loop.
currentCustomer(rec) == rec.customers[rec.i]

\* The head of the for loop: the next customer, or the end of the batch.
nextCustomer(rec) ==
    [rec EXCEPT
        !.pc = IF rec.i < Len(rec.customers) THEN "history" ELSE "done",
        !.i = rec.i + 1,
        !.historyDates = <<>>, !.delIds = {}, !.pending = <<>>,
        !.last = 0, !.next = 0, !.cycle = 0]

\* Lines 254-274, after deleteFuturePlansForCustomer: the forecast, then
\* the first upsert; the catch falls through to the fallback branch.
afterForecastDelete(rec) ==
    IF buildPlanThrows(rec.historyDates, rec.baseYear)
    THEN [rec EXCEPT !.pc = "last", !.delIds = {}]
    ELSE LET plannedDates ==
                 buildPlanFromHistory(rec.historyDates, rec.baseYear,
                                      rec.today, rec.horizonDays).plannedDates
             pending == upsertableDates(plannedDates, rec.today)
         IN IF pending = <<>>
            THEN nextCustomer(rec)
            ELSE [rec EXCEPT !.pc = "fcUpsert", !.delIds = {}, !.pending = pending]

\* Lines 289-296, after deleteFuturePlansForCustomer: the cycle, the first
\* date after today, then the first upsert.
afterFallbackDelete(rec) ==
    LET cycle == cycleDaysFromTank(currentCustomer(rec).tankType, rec.fallbackCycleDays)
        next  == skipToAfter(addDaysYmd(rec.last, cycle), rec.today, cycle)
    IN IF next <= rec.horizonEnd
       THEN [rec EXCEPT !.pc = "fbUpsert", !.delIds = {}, !.cycle = cycle, !.next = next]
       ELSE nextCustomer(rec)

\* The option values of a call: the defaults (every caller in the pages
\* passes none) and a call of generateMonthlyPlans with its own values.
RunOptions ==
    {[horizonDays |-> 370, fallbackCycleDays |-> 42, maxYearsBack |-> 3],
     [horizonDays |-> 100, fallbackCycleDays |-> 60, maxYearsBack |-> 1]}

\* Lines 227-238: the options, today, the horizon and the base year, up to
\* the await of db.customers.toArray().
enterBatch(opts) ==
    [IdleRun EXCEPT
        !.pc = "customers",
        !.horizonDays = opts.horizonDays,
        !.fallbackCycleDays = opts.fallbackCycleDays,
        !.maxYearsBack = opts.maxYearsBack,
        !.today = now,
        !.horizonEnd = addDaysYmd(now, opts.horizonDays),
        !.baseYear = YearOf(now) - 1]

\* A page starts the batch (Plan.tsx:55, PlanCalendar.tsx:63).
StartRun(r) ==
    /\ AllIdle /\ call = NoCall
    /\ \E opts \in RunOptions : run' = [run EXCEPT ![r] = enterBatch(opts)]
    /\ UNCHANGED <<now, customers, orders, plans, call>>

\* const customers = await db.customers.toArray()
ReadCustomers(r) ==
    /\ run[r].pc = "customers"
    /\ run' = [run EXCEPT ![r] = nextCustomer([run[r] EXCEPT !.customers = customers])]
    /\ UNCHANGED <<now, customers, orders, plans, call>>

\* await getHistoryDatesForCustomer(cid, baseYear, maxYearsBack), and the
\* choice of the branch.
ReadHistory(r) ==
    /\ run[r].pc = "history"
    /\ LET rec == run[r]
           historyDates == getHistoryDatesForCustomer(currentCustomer(rec).id,
                                                      rec.baseYear, rec.maxYearsBack)
       IN run' = [run EXCEPT ![r] =
                    [rec EXCEPT
                        !.historyDates = historyDates,
                        !.pc = IF Len(baseYearDatesOf(historyDates, rec.baseYear)) > 0
                               THEN "fcQuery" ELSE "last"]]
    /\ UNCHANGED <<now, customers, orders, plans, call>>

\* deleteFuturePlansForCustomer(cid, today), its query: the ids to delete;
\* with none, the function returns and the branch goes on.
QueryFuturePlans(r) ==
    /\ run[r].pc \in {"fcQuery", "fbQuery"}
    /\ LET rec    == run[r]
           delIds == futureDelIds(plansOfCustomer(currentCustomer(rec).id), rec.today)
       IN run' = [run EXCEPT ![r] =
                    IF delIds # {}
                    THEN [rec EXCEPT !.delIds = delIds,
                                     !.pc = IF rec.pc = "fcQuery" THEN "fcDelete" ELSE "fbDelete"]
                    ELSE IF rec.pc = "fcQuery"
                         THEN afterForecastDelete(rec)
                         ELSE afterFallbackDelete(rec)]
    /\ UNCHANGED <<now, customers, orders, plans, call>>

\* deleteFuturePlansForCustomer(cid, today), its bulkDelete.
DeleteFuturePlans(r) ==
    /\ run[r].pc \in {"fcDelete", "fbDelete"}
    /\ plans' = bulkDeletePlans(plans, run[r].delIds)
    /\ run' = [run EXCEPT ![r] =
                 IF run[r].pc = "fcDelete"
                 THEN afterForecastDelete(run[r])
                 ELSE afterFallbackDelete(run[r])]
    /\ UNCHANGED <<now, customers, orders, call>>

\* await upsertPlan(dateISO, cid) of the forecast branch, up to the next
\* upsert or the continue.
UpsertForecast(r) ==
    /\ run[r].pc = "fcUpsert"
    /\ LET rec == run[r]
       IN /\ plans' = putPlanRow(plans, Head(rec.pending), currentCustomer(rec).id)
          /\ run' = [run EXCEPT ![r] =
                       IF Tail(rec.pending) = <<>>
                       THEN nextCustomer(rec)
                       ELSE [rec EXCEPT !.pending = Tail(rec.pending)]]
    /\ UNCHANGED <<now, customers, orders, call>>

\* const last = await getLastDeliveredYmd(cid)
ReadLast(r) ==
    /\ run[r].pc = "last"
    /\ LET last == getLastDeliveredYmd(currentCustomer(run[r]).id)
       IN run' = [run EXCEPT ![r] =
                    IF last = -1
                    THEN [run[r] EXCEPT !.pc = "allQuery"]
                    ELSE [run[r] EXCEPT !.pc = "fbQuery", !.last = last]]
    /\ UNCHANGED <<now, customers, orders, plans, call>>

\* deleteAllPlansForCustomer(cid), its query.
QueryAllPlans(r) ==
    /\ run[r].pc = "allQuery"
    /\ LET rec    == run[r]
           delIds == allPlanIds(plansOfCustomer(currentCustomer(rec).id))
       IN run' = [run EXCEPT ![r] =
                    IF delIds # {}
                    THEN [rec EXCEPT !.delIds = delIds, !.pc = "allDelete"]
                    ELSE nextCustomer(rec)]
    /\ UNCHANGED <<now, customers, orders, plans, call>>

\* deleteAllPlansForCustomer(cid), its bulkDelete, and the continue.
DeleteAllPlans(r) ==
    /\ run[r].pc = "allDelete"
    /\ plans' = bulkDeletePlans(plans, run[r].delIds)
    /\ run' = [run EXCEPT ![r] = nextCustomer(run[r])]
    /\ UNCHANGED <<now, customers, orders, call>>

\* await upsertPlan(next, cid) of the fallback branch, and the step to the
\* next date.
UpsertFallback(r) ==
    /\ run[r].pc = "fbUpsert"
    /\ LET rec  == run[r]
           next == addDaysYmd(rec.next, rec.cycle)
       IN /\ plans' = putPlanRow(plans, rec.next, currentCustomer(rec).id)
          /\ run' = [run EXCEPT ![r] =
                       IF next <= rec.horizonEnd
                       THEN [rec EXCEPT !.next = next]
                       ELSE nextCustomer(rec)]
    /\ UNCHANGED <<now, customers, orders, call>>

\* The batch returns to its caller; a handler that awaited it returns too.
RunReturn(r) ==
    /\ run[r].pc = "done"
    /\ run' = [run EXCEPT ![r] = IdleRun]
    /\ call' = NoCall
    /\ UNCHANGED <<now, customers, orders, plans>>

\* The dates whose rows the user deletes one date at a time.
DeleteDays == {20240308, 20240615, 20250115}

\* History.tsx, deleteAllByCustomer (0: every date) and
\* deleteByDateAndCustomer: the orders are deleted; the handler then awaits
\* purgePlansForCustomer.
HistoryDeleteOrders ==
    /\ AllIdle /\ call = NoCall
    /\ \E k \in 1..Len(orders), all \in BOOLEAN :
          LET customerId == orders[k].customerId
              dateISO    == orders[k].date
              hit(o)     == /\ o.customerId = customerId
                            /\ (all \/ o.date = dateISO)
          IN /\ all \/ dateISO \in DeleteDays
             /\ orders' = SelectSeq(orders, LAMBDA o : ~hit(o))
             /\ call' = [fn |-> IF all THEN "deleteAllByCustomer"
                                ELSE "deleteByDateAndCustomer",
                         pc |-> "purge", customerId |-> customerId]
    /\ UNCHANGED <<now, customers, plans, run>>

\* await purgePlansForCustomer(customerId), scope 'all', then the handler
\* calls the batch; or the store rejects, which ends the handler with the
\* plans as they were.
HistoryPurgePlans(r) ==
    /\ AllIdle /\ call.fn \in {"deleteAllByCustomer", "deleteByDateAndCustomer"}
    /\ call.pc = "purge"
    /\ \/ /\ plans' = purgePlansForCustomer(call.customerId, "all", now)
          /\ run' = [run EXCEPT ![r] =
                       enterBatch([horizonDays |-> 370, fallbackCycleDays |-> 42,
                                   maxYearsBack |-> 3])]
          /\ call' = [call EXCEPT !.pc = "batch"]
       \/ /\ call' = NoCall
          /\ UNCHANGED <<plans, run>>
    /\ UNCHANGED <<now, customers, orders>>

\* The days on which the program is used.
ClockDays == {20250220, 20250410, 20260116}

\* Time passes while nothing runs.
Tick ==
    /\ AllIdle /\ call = NoCall
    /\ \E d \in ClockDays : d > now /\ now' = d
    /\ UNCHANGED <<customers, orders, plans, run, call>>

\* The order rows of a customer with the given dates.
OrderRows(customerId, dates) ==
    [k \in 1..Len(dates) |-> [customerId |-> customerId, date |-> dates[k]]]

\* Delivery histories of the first customer: none, three deliveries in
\* 2024 registered out of order, and a delivery on every day of February 2024.
FirstHistories ==
    {<<>>, <<20240308, 20240105, 20240210>>, MonthBlock(2024, 2, 29)}

\* Delivery histories of the second customer: a row without a valid date,
\* an old delivery, a delivery of 2025 only, and a row older than the
\* window, a date registered twice and a row without a valid date.
SecondHistories ==
    {<<-1>>, <<20221103>>, <<20250115>>, <<20200615, 20240615, 20240615, -1>>}

TankInputs == {<<"A", "C">>, <<"none", "B">>}

\* The stores after a restore of a backup (importAllFromData clears the
\* plans), before any batch has run.
Init ==
    /\ now \in ClockDays /\ \A d \in ClockDays : now <= d
    /\ \E tanks \in TankInputs, h1 \in FirstHistories, h2 \in SecondHistories :
          /\ customers = <<[id |-> 1, tankType |-> tanks[1]],
                           [id |-> 2, tankType |-> tanks[2]]>>
          /\ orders = OrderRows(1, h1) \o OrderRows(2, h2)
    /\ plans = {}
    /\ run = [r \in Runs |-> IdleRun]
    /\ call = NoCall

\* The most rows one registration day of a customer gets.
MaxRegistered == 1

\* The days the user selects in the calendar of the reception page, and
\* the customers the form is filled in for.
RegisterDays == {20241228}
RegisterCustomers == {2}

\* Reception, onSubmitClick: the selected day, which toggleDay accepts only
\* when it is not in the future, is added to the orders in one transaction,
\* and the handler calls the batch without options.
ReceptionSubmit(r) ==
    /\ AllIdle /\ call = NoCall
    /\ \E k \in 1..Len(customers), iso \in RegisterDays :
          LET customerId == customers[k].id
              row        == [customerId |-> customerId, date |-> iso]
          IN /\ customerId \in RegisterCustomers
             /\ iso <= now
             /\ Len(SelectSeq(orders, LAMBDA o : o = row)) < MaxRegistered
             /\ orders' = Append(orders, row)
             /\ call' = [fn |-> "onSubmitClick", pc |-> "batch", customerId |-> customerId]
    /\ run' = [run EXCEPT ![r] =
                 enterBatch([horizonDays |-> 370, fallbackCycleDays |-> 42,
                             maxYearsBack |-> 3])]
    /\ UNCHANGED <<now, customers, plans>>

Next ==
    \/ \E r \in Runs :
          \/ StartRun(r)
          \/ ReadCustomers(r)
          \/ ReadHistory(r)
          \/ QueryFuturePlans(r)
          \/ DeleteFuturePlans(r)
          \/ UpsertForecast(r)
          \/ ReadLast(r)
          \/ QueryAllPlans(r)
          \/ DeleteAllPlans(r)
          \/ UpsertFallback(r)
          \/ RunReturn(r)
          \/ HistoryPurgePlans(r)
          \/ ReceptionSubmit(r)
    \/ HistoryDeleteOrders
    \/ Tick

Spec == Init /\ [][Next]_vars

(***************************************************************************)
(* Properties of the forecast functions                                    *)
(***************************************************************************)

\* C6: makeMonthlyTargets returns twelve counts whose sum is exactly
\* targetYearCount, for every targetYearCount >= 0 and every twelve
\* non-negative shares that sum to 1: its redistribution loop ends with
\* remainder 0, before the cap of 36 iterations.
C6_MonthlySumIsTarget ==
    (call.fn = "makeMonthlyTargets" /\ call.pc = "returned") =>
        /\ SumSeq(call.monthlyCounts) = call.targetYearCount
        /\ call.diff = 0
        /\ call.idx < limit

\* A call whose rounded shares overshoot the target by 6, so that the loop
\* has to take a unit back from six months.
C6_Witness ==
    /\ call.fn = "makeMonthlyTargets" /\ call.pc = "returned"
    /\ call.targetYearCount - SumSeq(roundedShares(call.targetYearCount, call.shares)) = -6
    /\ call.idx = 6

\* C7: when the base year's count is N > 0, decideTargetYearCount returns t
\* with floor(0.85 N) <= t <= ceil(1.3 N) or t = N, and t > 0.
C7_TargetWithinClamp ==
    (/\ call.fn = "decideTargetYearCount" /\ call.pc = "returned"
     /\ lastYearCountOf(call.yearlyCounts, call.baseYear) > 0) =>
        LET N == lastYearCountOf(call.yearlyCounts, call.baseYear)
            t == call.targetYearCount
        IN /\ \/ (N * 85) \div 100 <= t /\ 10 * t < 13 * N + 10
              \/ t = N
           /\ t > 0

\* A call in which the clamp leaves 0 and the fall-back to N = 1 is taken.
C7_Witness ==
    /\ call.fn = "decideTargetYearCount" /\ call.pc = "returned"
    /\ lastYearCountOf(call.yearlyCounts, call.baseYear) = 1
    /\ roundedAverage(call.yearlyCounts) = 0
    /\ call.targetYearCount = 1

\* C9: generateDatesForMonth(year, month, c) returns no date when c <= 0 and
\* otherwise exactly c dates of that year and month, each on a day in
\* 1..daysInMonth(year, month).
C9_DatesCountAndRange ==
    (call.fn = "generateDatesForMonth" /\ call.pc = "returned") =>
        IF call.count <= 0 THEN call.dates = <<>>
        ELSE /\ Len(call.dates) = call.count
             /\ \A i \in DOMAIN call.dates :
                   /\ YearOf(call.dates[i]) = call.year
                   /\ MonthOf(call.dates[i]) = call.month
                   /\ DayOf(call.dates[i]) >= 1
                   /\ DayOf(call.dates[i]) <= DaysInMonth(call.year, call.month)

\* A call with more dates than the month has days: the rounded day of the
\* first date is 0 and only the clamp brings it to day 1.
C9_Witness ==
    /\ call.fn = "generateDatesForMonth" /\ call.pc = "returned"
    /\ call.count > DaysInMonth(call.year, call.month)
    /\ spacedDay(DaysInMonth(call.year, call.month), call.count, 0) = 0
    /\ DayOf(call.dates[1]) = 1

PlanReturned == call.fn = "buildPlanFromHistory" /\ call.pc = "returned"

\* C8: the plannedDates that buildPlanFromHistory returns are strictly
\* ascending, no date twice, also when a month is given more dates than it
\* has days.
C8_PlannedDatesStrictlyAscending ==
    PlanReturned =>
        \A i \in 1..(Len(call.plannedDates) - 1) :
            call.plannedDates[i] < call.plannedDates[i + 1]

\* The months from the month of date s to the month of date e.
MonthsFromTo(s, e) ==
    {ym \in (YearOf(s)..YearOf(e)) \X Months :
        /\ ym[1] * 12 + ym[2] >= YearOf(s) * 12 + MonthOf(s)
        /\ ym[1] * 12 + ym[2] <= YearOf(e) * 12 + MonthOf(e)}

C10_Start == startYmdOf(call.startFromYmd, call.baseYear)
C10_End == addDaysYmd(C10_Start, call.horizonDays)

C10_WithinHorizon ==
    PlanReturned =>
        \A i \in DOMAIN call.plannedDates :
            C10_Start <= call.plannedDates[i] /\ call.plannedDates[i] <= C10_End

C10_NothingLeftOut ==
    PlanReturned =>
        \A ym \in MonthsFromTo(C10_Start, C10_End) :
            \A d \in Range(generateDatesForMonth(ym[1], ym[2], call.monthlyCounts[ym[2]])) :
                (C10_Start <= d /\ d <= C10_End) => d \in Range(call.plannedDates)

\* The walk's position, counted in months.
C10_MonthIndex(y, m) == y * 12 + m

PlanWalking == call.fn = "buildPlanFromHistory" /\ call.pc = "walking"

\* While walking, the month is never before the start month and at most one
\* month after the end month.
C10_WalkBounded ==
    PlanWalking =>
        /\ C10_MonthIndex(call.y, call.m) >= C10_MonthIndex(YearOf(C10_Start), MonthOf(C10_Start))
        /\ \/ C10_MonthIndex(call.y, call.m) = C10_MonthIndex(YearOf(C10_Start), MonthOf(C10_Start))
           \/ C10_MonthIndex(call.y, call.m) <= C10_MonthIndex(YearOf(C10_End), MonthOf(C10_End)) + 1

\* C10: every date of plannedDates lies in [start, start + horizonDays];
\* every date generateDatesForMonth gives for a month from the start month
\* to the end month that lies in that interval is in plannedDates; and the
\* month-by-month walk ends: each iteration moves exactly one month forward,
\* the month never passes the month after the end month, and once the
\* month's first day is after the end date the next step is the return.
C10_HorizonExactAndWalkEnds ==
    /\ [](C10_WithinHorizon /\ C10_NothingLeftOut /\ C10_WalkBounded)
    /\ [][/\ (PlanWalking /\ call'.pc = "walking") =>
                C10_MonthIndex(call'.y, call'.m) = C10_MonthIndex(call.y, call.m) + 1
          /\ (PlanWalking /\ DayNumber(call.y, call.m, 1) > parseYmd(C10_End)) =>
                call'.pc = "returned"]_vars

\* A returned call whose walk went over more than twelve months, produced
\* dates on both sides of the interval that the filter dropped, and kept some.
C10_Witness ==
    /\ PlanReturned
    /\ call.plannedDates # <<>>
    /\ call.y * 12 + call.m > YearOf(call.startYmd) * 12 + MonthOf(call.startYmd) + 12
    /\ \E i \in DOMAIN call.plannedDatesAll : call.plannedDatesAll[i] < call.startYmd
    /\ \E i \in DOMAIN call.plannedDatesAll : call.plannedDatesAll[i] > call.endYmd

(***************************************************************************)
(* Properties of the reconciliation batch                                  *)
(***************************************************************************)

\* The customers whose step of the run has completed.
Reconciled(r) ==
    IF run[r].pc \in {"idle", "customers"} THEN {}
    ELSE {run[r].customers[k] : k \in 1..(run[r].i - 1)}

\* The run is inside the step of a customer.
InStep(r) == run[r].pc \notin {"idle", "customers", "done"}

\* The valid delivery dates of a customer in the order store.
validDatesOf(customerId) ==
    {orders[k].date :
        k \in {j \in 1..Len(orders) :
                 orders[j].customerId = customerId /\ ISO_YMD(orders[j].date)}}

IsNew(customerId) == validDatesOf(customerId) = {}

IsForecasted(customerId, baseYear) ==
    \E d \in validDatesOf(customerId) : YearOf(d) = baseYear

IsFallback(customerId, baseYear) ==
    ~IsNew(customerId) /\ ~IsForecasted(customerId, baseYear)

\* The dates of a customer's plan entries from today on.
futureDatesOf(customerId, today) ==
    {p.dateISO : p \in {q \in plans : q.customerId = customerId /\ q.dateISO >= today}}

pastEntries(table, today) == {p \in table : p.dateISO < today}

C2_ForecastReplacesFuture ==
    \A r \in Runs : \A c \in Reconciled(r) :
        IsForecasted(c.id, run[r].baseYear) =>
            futureDatesOf(c.id, run[r].today) =
                Range(buildPlanFromHistory(
                          getHistoryDatesForCustomer(c.id, run[r].baseYear, run[r].maxYearsBack),
                          run[r].baseYear, run[r].today, run[r].horizonDays).plannedDates)

\* A completed run over a forecasted customer that had plan entries from an
\* earlier day.
C2_Witness ==
    \E r \in Runs :
        /\ run[r].pc = "done"
        /\ \E c \in Reconciled(r) :
              /\ IsForecasted(c.id, run[r].baseYear)
              /\ futureDatesOf(c.id, run[r].today) # {}
              /\ \E p \in plansOfCustomer(c.id) : p.dateISO < run[r].today

\* The cycle of C3: 38/42/51 for tank A/B/C, else the configured fallback.
C3_Cycle(tankType, fallbackCycleDays) ==
    IF tankType = "A" THEN 38
    ELSE IF tankType = "B" THEN 42
    ELSE IF tankType = "C" THEN 51
    ELSE fallbackCycleDays

C3_Last(customerId) ==
    CHOOSE d \in validDatesOf(customerId) : \A e \in validDatesOf(customerId) : e <= d

\* The dates last + k*cycle, k >= 1, after today and up to today + horizonDays.
C3_Dates(last, cycle, today, horizonDays) ==
    LET end == parseYmd(today) + horizonDays
        K   == ((end - parseYmd(last)) \div cycle) + 1
    IN {d \in {jstYmdFromDate(parseYmd(last) + k * cycle) : k \in 1..K} :
          d > today /\ d <= jstYmdFromDate(end)}

\* C3: once the step of a customer without a delivery record in the base
\* year but with a valid delivery record elsewhere has completed, the
\* customer's plan entries with date >= today are exactly the dates
\* last + k*cycle (k >= 1) that are > today and <= today + horizonDays,
\* last being the customer's latest valid delivery date and cycle 38/42/51
\* for tank A/B/C or the configured fallback cycle for an unknown tank.
C3_FallbackStepsFromLast ==
    \A r \in Runs : \A c \in Reconciled(r) :
        IsFallback(c.id, run[r].baseYear) =>
            futureDatesOf(c.id, run[r].today) =
                C3_Dates(C3_Last(c.id), C3_Cycle(c.tankType, run[r].fallbackCycleDays),
                         run[r].today, run[r].horizonDays)

\* A completed run over a fallback customer of unknown tank whose last
\* delivery lies more than a cycle before today.
C3_Witness ==
    \E r \in Runs :
        /\ run[r].pc = "done"
        /\ \E c \in Reconciled(r) :
              /\ IsFallback(c.id, run[r].baseYear)
              /\ c.tankType = "none"
              /\ addDaysYmd(C3_Last(c.id), run[r].fallbackCycleDays) <= run[r].today
              /\ futureDatesOf(c.id, run[r].today) # {}

\* C4: the step of a customer without any valid delivery record enters
\* neither the forecast branch nor the fallback stepping and upserts no
\* plan entry, and once it has completed the customer has no plan entry
\* with date >= today.
C4_NewCustomerGetsNoPlan ==
    /\ [](\A r \in Runs : \A c \in Reconciled(r) :
             IsNew(c.id) => futureDatesOf(c.id, run[r].today) = {})
    /\ [][\A r \in Runs :
             (InStep(r) /\ IsNew(currentCustomer(run[r]).id)) =>
                 /\ plans' \subseteq plans
                 /\ run'[r].pc \in {"last", "allQuery", "allDelete", "history", "done"}]_vars

\* A completed run over a customer without delivery records, in a store
\* that holds plan entries of another customer.
C4_Witness ==
    \E r \in Runs :
        /\ run[r].pc = "done"
        /\ \E c \in Reconciled(r) :
              /\ IsNew(c.id)
              /\ \E p \in plans : p.customerId # c.id

\* C5: in every state the plan store holds at most one plan entry for each
\* pair of customerId and date.
C5_OneEntryPerCustomerAndDate ==
    \A p \in plans : \A q \in plans :
        (p.customerId = q.customerId /\ p.dateISO = q.dateISO) => p = q

\* A completed run whose plannedDates for a customer repeat a date.
C5_Witness ==
    \E r \in Runs :
        /\ run[r].pc = "done"
        /\ \E c \in Reconciled(r) :
              /\ IsForecasted(c.id, run[r].baseYear)
              /\ LET plannedDates ==
                         buildPlanFromHistory(
                             getHistoryDatesForCustomer(c.id, run[r].baseYear,
                                                        run[r].maxYearsBack),
                             run[r].baseYear, run[r].today, run[r].horizonDays).plannedDates
                 IN /\ Len(plannedDates) > Cardinality(Range(plannedDates))
                    /\ Range(plannedDates) \subseteq futureDatesOf(c.id, run[r].today)

(***************************************************************************)
(* predict.ts: the phase-aligned fixed-cycle prediction                    *)
(*                                                                         *)
(* The options object is a record; an option that is not given is         *)
(* modelled by hasCycleDays = FALSE, lastDate = -1, historyDates = <<>>.   *)
(***************************************************************************)

\* Number.isFinite(opts.cycleDays) ? Number(opts.cycleDays) : cycleDaysFromTank(opts.tankType)
cycleOfOpts(opts) ==
    IF opts.hasCycleDays THEN opts.cycleDays ELSE cycleDaysFromTank(opts.tankType, 42)

\* historyDates.filter(s => ISO_YMD.test(s)).reduce((m, s) => (m ? maxYmd(m, s) : s), '')
\* and the lastDate that stands in for it; -1 models no base.
RECURSIVE maxOfHistory(_, _)
maxOfHistory(historyDates, m) ==
    IF historyDates = <<>> THEN m
    ELSE maxOfHistory(Tail(historyDates),
                      IF ISO_YMD(Head(historyDates))
                      THEN (IF m # -1 THEN maxYmd(m, Head(historyDates)) ELSE Head(historyDates))
                      ELSE m)

baseOfOpts(opts) ==
    LET fromHistory == maxOfHistory(opts.historyDates, -1)
    IN IF fromHistory # -1 THEN fromHistory
       ELSE IF ISO_YMD(opts.lastDate) THEN opts.lastDate
       ELSE -1

\* A loop that stops on a date equal to today.
RECURSIVE stepPastTodayLax(_, _, _)
stepPastTodayLax(next, today, cycle) ==
    IF next < today THEN stepPastTodayLax(addDaysYmd(next, cycle), today, cycle) ELSE next

\* while (next <= today) next = addDaysYmd(next, cycle)
RECURSIVE stepPastToday(_, _, _)
stepPastToday(next, today, cycle) ==
    IF next <= today THEN stepPastToday(addDaysYmd(next, cycle), today, cycle) ELSE next

predictNextDatePhaseAligned(opts) ==
    LET today == opts.today
        cycle == cycleOfOpts(opts)
        base  == baseOfOpts(opts)
    IN IF base = -1
       THEN addDaysYmd(today, cycle)
       ELSE stepPastToday(addDaysYmd(base, cycle), today, cycle)

\* A list that stops after its first date.
chainToEndOnce(d, end, cycle) == IF d <= end THEN <<d>> ELSE <<>>

\* The list of predictNextYearPhaseAligned from d on.
RECURSIVE chainToEnd(_, _, _)
chainToEnd(d, end, cycle) ==
    IF d <= end THEN <<d>> \o chainToEnd(addDaysYmd(d, cycle), end, cycle) ELSE <<>>

predictNextYearPhaseAligned(opts) ==
    LET first == predictNextDatePhaseAligned(opts)
        cycle == cycleOfOpts(opts)
        end   == addDaysYmd(opts.today, opts.horizonDays)
    IN chainToEnd(first, end, cycle)

(***************************************************************************)
(* predictNextDatePhaseAligned on its own, next to the skip loop of the    *)
(* batch's fallback branch                                                 *)
(***************************************************************************)
MaxCycle == 45

\* Last delivery dates (-1: none given) and values of today.
LastDateInputs == {-1, 20231225, 20240110, 20240220, 20240301}
TodayInputs == {20240217, 20240220, 20240326}

InitCycler ==
    /\ StoresAtRest
    /\ \E c \in 1..MaxCycle, l \in LastDateInputs, t \in TodayInputs,
          h \in {<<>>, <<-1>>, <<20231225, 20240110>>}, given \in BOOLEAN :
          /\ given \/ c = 38
          /\ call = [fn |-> "predictNextDatePhaseAligned", pc |-> "called",
                     opts |-> [hasCycleDays |-> given, cycleDays |-> c, tankType |-> "A",
                               lastDate |-> l, historyDates |-> h, today |-> t,
                               horizonDays |-> 370],
                     next |-> 0, batchNext |-> 0]

\* The call returns; batchNext is what lines 291-294 of buildMonthlyPlanByThreshold
\* compute from the same last date, cycle and today.
ReturnNextDate ==
    /\ call.fn = "predictNextDatePhaseAligned" /\ call.pc = "called"
    /\ call' = [call EXCEPT
                  !.pc = "returned",
                  !.next = predictNextDatePhaseAligned(call.opts),
                  !.batchNext =
                      IF baseOfOpts(call.opts) = -1 THEN 0
                      ELSE skipToAfter(addDaysYmd(baseOfOpts(call.opts), cycleOfOpts(call.opts)),
                                       call.opts.today, cycleOfOpts(call.opts))]
    /\ UNCHANGED <<now, customers, orders, plans, run>>

NextCycler == ReturnNextDate

SpecCycler == InitCycler /\ [][NextCycler]_vars

\* The call of predictNextDatePhaseAligned has returned for a given base date.
CyclerReturned ==
    /\ call.fn = "predictNextDatePhaseAligned" /\ call.pc = "returned"
    /\ baseOfOpts(call.opts) # -1

\* The smallest k >= 1 with L + k*c > T.
C11_SmallestK(L, c, T) ==
    CHOOSE k \in 1..(MaxCycle + 200) :
        /\ parseYmd(L) + k * c > parseYmd(T)
        /\ \A j \in 1..(k - 1) : parseYmd(L) + j * c <= parseYmd(T)

\* C11: for a last delivery date L, a cycle c >= 1 and today T, the
\* phase-aligned prediction (and the skip loop of the batch's fallback
\* branch) returns L + k*c for the smallest k >= 1 with L + k*c > T; for
\* L = 2024-01-10, c = 38, T = 2024-02-20 that is 2024-03-26.
C11_NextIsFirstCycleStepAfterToday ==
    CyclerReturned =>
        LET L == baseOfOpts(call.opts)
            c == cycleOfOpts(call.opts)
            T == call.opts.today
            expected == jstYmdFromDate(parseYmd(L) + C11_SmallestK(L, c, T) * c)
        IN /\ call.next = expected
           /\ call.batchNext = expected
           /\ (L = 20240110 /\ c = 38 /\ T = 20240220) => call.next = 20240326

\* The example of the claim has returned: the first step 2024-02-17 is not
\* after today, the second is.
C11_Witness ==
    /\ CyclerReturned
    /\ call.opts.lastDate = 20240110 /\ call.opts.historyDates = <<>>
    /\ cycleOfOpts(call.opts) = 38 /\ call.opts.today = 20240220
    /\ addDaysYmd(20240110, 38) <= call.opts.today
    /\ call.next = 20240326

(***************************************************************************)
(* Classification and its independence of the plan store                   *)
(***************************************************************************)

\* The dates from today on that a run with the locals rec leaves for the
\* customer c, as a function of the orders, the customer row, today and the
\* options alone: nothing of the plan store enters it.
C12_FutureOf(c, rec) ==
    IF IsNew(c.id) THEN {}
    ELSE IF IsForecasted(c.id, rec.baseYear)
    THEN Range(buildPlanFromHistory(
                   getHistoryDatesForCustomer(c.id, rec.baseYear, rec.maxYearsBack),
                   rec.baseYear, rec.today, rec.horizonDays).plannedDates)
    ELSE C3_Dates(C3_Last(c.id), C3_Cycle(c.tankType, rec.fallbackCycleDays),
                  rec.today, rec.horizonDays)

\* C12: the plan entries with date >= today that a run leaves for a
\* customer are a function of the orders, the customers, today and the
\* options of that run only, whatever the plan store held before and however
\* the customer was classified by earlier runs; so two runs from the same
\* orders, customers and today leave the same future entries.
C12_FutureIsFunctionOfOrders ==
    \A r \in Runs : \A c \in Reconciled(r) :
        futureDatesOf(c.id, run[r].today) = C12_FutureOf(c, run[r])

\* A completed run that handled by the forecast a customer who has a
\* delivery of the base year registered after older ones, and whose plan
\* entries of before today lie a whole number of fallback cycles after an
\* older delivery: an earlier run handled the customer by the fallback.
C12_Witness ==
    \E r \in Runs :
        /\ run[r].pc = "done"
        /\ \E c \in Reconciled(r) :
              /\ IsForecasted(c.id, run[r].baseYear)
              /\ futureDatesOf(c.id, run[r].today) # {}
              /\ \E p \in plansOfCustomer(c.id), d \in validDatesOf(c.id) :
                    /\ p.dateISO < run[r].today
                    /\ YearOf(d) < run[r].baseYear
                    /\ (parseYmd(p.dateISO) - parseYmd(d)) % C3_Cycle(c.tankType, 42) = 0
                    /\ p.dateISO \notin C12_FutureOf(c, [run[r] EXCEPT !.today = p.dateISO])

(***************************************************************************)
(* The batch over a store that can reject an operation                     *)
(*                                                                         *)
(* Every await of the batch is a Dexie call, which can reject.  A rejected *)
(* call changes no store.  The rejection is thrown at the await: inside    *)
(* the try block of the forecast branch (the upsert loop, lines 254-267)   *)
(* it is caught by the catch of line 268 and the customer falls through to *)
(* the fallback branch; anywhere else it leaves                            *)
(* buildMonthlyPlanByThreshold.                                            *)
(***************************************************************************)

\* The positions at which the batch awaits a store.
StorePositions ==
    {"customers", "history", "fcQuery", "fcDelete", "fcUpsert", "last",
     "allQuery", "allDelete", "fbQuery", "fbDelete", "fbUpsert"}

\* A batch without the try / catch: every throw leaves the function.
throwLeaves(pc) == "rejected"

\* Where a throw at the position pc is handled: the catch of the forecast
\* branch covers the upsert loop only.
throwTarget(pc) == IF pc = "fcUpsert" THEN "last" ELSE "rejected"

\* The locals after the catch block: the customer goes on at
\* getLastDeliveredYmd.
afterCatch(rec) == [rec EXCEPT !.pc = "last", !.pending = <<>>, !.delIds = {}]

\* The store rejects the operation that the run awaits.
StoreRejects(r) ==
    /\ run[r].pc \in StorePositions
    /\ run' = [run EXCEPT ![r] =
                 IF throwTarget(run[r].pc) = "last"
                 THEN afterCatch(run[r])
                 ELSE [IdleRun EXCEPT !.pc = "rejected"]]
    /\ UNCHANGED <<now, customers, orders, plans, call>>

\* The rejection reaches the caller of the batch.
RunRejected(r) ==
    /\ run[r].pc = "rejected"
    /\ run' = [run EXCEPT ![r] = IdleRun]
    /\ call' = NoCall
    /\ UNCHANGED <<now, customers, orders, plans>>

\* A page starts the batch without options (Plan.tsx:55).
StartDefaultRun(r) ==
    /\ AllIdle /\ call = NoCall
    /\ run' = [run EXCEPT ![r] =
                 enterBatch([horizonDays |-> 370, fallbackCycleDays |-> 42,
                             maxYearsBack |-> 3])]
    /\ UNCHANGED <<now, customers, orders, plans, call>>

\* The stores after a restore of a backup whose first customer has no
\* delivery or three deliveries in 2024.
InitFail ==
    /\ Init
    /\ Len(ordersOfCustomer(1)) <= 3

NextFail ==
    \/ \E r \in Runs :
          \/ StartDefaultRun(r)
          \/ ReadCustomers(r)
          \/ ReadHistory(r)
          \/ QueryFuturePlans(r)
          \/ DeleteFuturePlans(r)
          \/ UpsertForecast(r)
          \/ ReadLast(r)
          \/ QueryAllPlans(r)
          \/ DeleteAllPlans(r)
          \/ UpsertFallback(r)
          \/ RunReturn(r)
          \/ StoreRejects(r)
          \/ RunRejected(r)
          \/ HistoryPurgePlans(r)
    \/ HistoryDeleteOrders

SpecFail == InitFail /\ [][NextFail]_vars

\* The fallback dates of a customer with a valid delivery, for the run rec.
FallbackFutureOf(c, rec) ==
    C3_Dates(C3_Last(c.id), C3_Cycle(c.tankType, rec.fallbackCycleDays),
             rec.today, rec.horizonDays)

C14_StoreFailurePropagates ==
    /\ [][\A r \in Runs : StoreRejects(r) => run'[r].pc = "rejected"]_vars
    /\ [](\A r \in Runs : \A c \in Reconciled(r) :
             IsForecasted(c.id, run[r].baseYear) =>
                 futureDatesOf(c.id, run[r].today) = C12_FutureOf(c, run[r]))

(***************************************************************************)
(* splitHistoryByYear, calcYearlyCounts and calcMonthlyWeights over        *)
(* histories that hold malformed dates                                     *)
(***************************************************************************)
MaxHistoryLen == 3

\* Date strings of a history: '' or a string of another format (-1),
\* '2024-13-05' and '2023-00-10' (four, two and two digits, no month of the
\* calendar), and dates of the calendar.
DateStringInputs == {-1, 20241305, 20230010, 20240105, 20240210, 20230720}

RECURSIVE SeqsUpTo(_, _)
SeqsUpTo(S, n) ==
    IF n = 0 THEN {<<>>}
    ELSE LET shorter == SeqsUpTo(S, n - 1)
         IN shorter \cup {Append(s, x) : s \in shorter, x \in S}

InitWeights ==
    /\ StoresAtRest
    /\ \E h \in SeqsUpTo(DateStringInputs, MaxHistoryLen) :
          call = [fn |-> "calcMonthlyWeights", pc |-> "called",
                  historyDates |-> h, baseYear |-> 2024,
                  yearlyCounts |-> <<>>, monthCounts |-> <<>>,
                  shares |-> [num |-> <<>>, den |-> 0]]

\* Steps 1, 2 and 4 of buildPlanFromHistory; monthCounts are the counts
\* per year and month that calcMonthlyWeights adds into last and past.
ReturnWeights ==
    /\ call.fn = "calcMonthlyWeights" /\ call.pc = "called"
    /\ LET byYear == splitHistoryByYear(call.historyDates, call.baseYear, MAX_YEARS_BACK)
       IN call' = [call EXCEPT
                     !.pc = "returned",
                     !.yearlyCounts = calcYearlyCounts(byYear),
                     !.monthCounts = [y \in DOMAIN byYear |-> monthHistogram(byYear[y])],
                     !.shares = calcMonthlyWeights(byYear, call.baseYear)]
    /\ UNCHANGED <<now, customers, orders, plans, run>>

NextWeights == ReturnWeights

SpecWeights == InitWeights /\ [][NextWeights]_vars

\* The date string names a day of the calendar.
IsCalendarDate(d) ==
    /\ ISO_YMD(d)
    /\ MonthOf(d) \in Months
    /\ DayOf(d) \in 1..DaysInMonth(YearOf(d), MonthOf(d))

\* C15: a date that is no calendar date (another format, or a month
\* outside 01-12) is counted in no yearly count and in no monthly count, so
\* every yearly count is the number of calendar dates of that year in the
\* history and equals the sum of that year's twelve monthly counts.
C15_MalformedDatesSkipped ==
    (call.fn = "calcMonthlyWeights" /\ call.pc = "returned") =>
        \A i \in DOMAIN call.yearlyCounts :
            LET y == call.yearlyCounts[i].year
            IN /\ call.yearlyCounts[i].count =
                      Cardinality({k \in DOMAIN call.historyDates :
                                      /\ IsCalendarDate(call.historyDates[k])
                                      /\ YearOf(call.historyDates[k]) = y})
               /\ call.yearlyCounts[i].count = SumSeq(call.monthCounts[y])

\* The run holds the history it read for the customer of the current step.
HistoryRead(r) == InStep(r) /\ run[r].pc # "history"

\* The rows of a customer whose date has the form of a date and a year in
\* [baseYear - maxYearsBack, baseYear].
C16_RowsInWindow(customerId, baseYear, maxYearsBack) ==
    {k \in 1..Len(orders) :
        /\ orders[k].customerId = customerId
        /\ ISO_YMD(orders[k].date)
        /\ YearOf(orders[k].date) >= baseYear - maxYearsBack
        /\ YearOf(orders[k].date) <= baseYear}

\* C16: getHistoryDatesForCustomer(customerId, B, W) returns the dates of
\* the customer's rows whose year lies in [B-W, B], each as often as rows
\* hold it, in ascending order, and the read changes no store.
C16_HistoryIsWindowOfOrders ==
    /\ [](\A r \in Runs :
             HistoryRead(r) =>
                 LET h    == run[r].historyDates
                     rows == C16_RowsInWindow(currentCustomer(run[r]).id,
                                              run[r].baseYear, run[r].maxYearsBack)
                 IN /\ Len(h) = Cardinality(rows)
                    /\ \A k \in rows :
                          Cardinality({i \in DOMAIN h : h[i] = orders[k].date}) =
                          Cardinality({j \in rows : orders[j].date = orders[k].date})
                    /\ \A i \in 1..(Len(h) - 1) : h[i] <= h[i + 1])
    /\ [][\A r \in Runs :
             run[r].pc = "history" =>
                 /\ orders' = orders /\ plans' = plans /\ customers' = customers]_vars

\* A history read for a customer with a date registered twice, a row older
\* than the window and a row without a valid date.
C16_Witness ==
    \E r \in Runs :
        /\ HistoryRead(r)
        /\ Len(run[r].historyDates) >= 2
        /\ run[r].historyDates[1] = run[r].historyDates[2]
        /\ \E k \in 1..Len(orders) :
              /\ orders[k].customerId = currentCustomer(run[r]).id
              /\ ISO_YMD(orders[k].date)
              /\ YearOf(orders[k].date) < run[r].baseYear - run[r].maxYearsBack
        /\ \E k \in 1..Len(orders) :
              /\ orders[k].customerId = currentCustomer(run[r]).id
              /\ ~ISO_YMD(orders[k].date)

(***************************************************************************)
(* buildPlanFromHistory for the history 2024-01-05, 2024-02-10,            *)
(* 2024-03-08, from every start date                                       *)
(***************************************************************************)
MaxStartOffset == 1200

InitExample ==
    /\ StoresAtRest
    /\ \E off \in -1..MaxStartOffset, hz \in {40, 370} :
          call = [fn |-> "buildPlanFromHistory", pc |-> "example",
                  historyDates |-> <<20240105, 20240210, 20240308>>, baseYear |-> 2024,
                  startFromYmd |-> IF off = -1 THEN -1 ELSE addDaysYmd(20250101, off),
                  horizonDays |-> hz,
                  targetYearCount |-> 0, monthlyCounts |-> <<>>, plannedDates |-> <<>>]

\* The call returns its PlanResult.
ReturnExamplePlan ==
    /\ call.fn = "buildPlanFromHistory" /\ call.pc = "example"
    /\ ~buildPlanThrows(call.historyDates, call.baseYear)
    /\ LET result == buildPlanFromHistory(call.historyDates, call.baseYear,
                                          call.startFromYmd, call.horizonDays)
       IN call' = [call EXCEPT
                     !.pc = "exampleReturned",
                     !.targetYearCount = result.targetYearCount,
                     !.monthlyCounts = result.monthlyCounts,
                     !.plannedDates = result.plannedDates]
    /\ UNCHANGED <<now, customers, orders, plans, run>>

NextExample == ReturnExamplePlan

SpecExample == InitExample /\ [][NextExample]_vars

\* The midpoint days of the Januaries, Februaries and Marches that lie in
\* [start, start + horizonDays].
C17_Midpoints(start, horizonDays) ==
    {d \in {MkYmd(y, m, MathRound(DaysInMonth(y, m), 2)) :
               y \in YearOf(start)..(YearOf(start) + 2), m \in 1..3} :
        d >= start /\ d <= addDaysYmd(start, horizonDays)}

\* C17: for the history 2024-01-05, 2024-02-10, 2024-03-08 and base year
\* 2024, targetYearCount is 3, monthlyCounts is 1 for January, February and
\* March and 0 elsewhere, and from every start date plannedDates is, in
\* ascending order and each once, the midpoint day round(daysInMonth / 2) of
\* every January, February and March whose midpoint lies within the
\* horizon, and nothing else.
C17_ExampleYieldsMidpoints ==
    (call.fn = "buildPlanFromHistory" /\ call.pc = "exampleReturned") =>
        /\ call.targetYearCount = 3
        /\ call.monthlyCounts = <<1, 1, 1, 0, 0, 0, 0, 0, 0, 0, 0, 0>>
        /\ call.plannedDates =
               SetToSortedSeq(C17_Midpoints(startYmdOf(call.startFromYmd, call.baseYear),
                                            call.horizonDays))

\* The plan from 2027-12-20 has returned: 2028-01-16, the 15th of the
\* leap-year February and 2028-03-16.
C17_Witness ==
    /\ call.fn = "buildPlanFromHistory" /\ call.pc = "exampleReturned"
    /\ call.startFromYmd = 20271220 /\ call.horizonDays = 370
    /\ call.plannedDates = <<20280116, 20280215, 20280316>>

(***************************************************************************)
(* buildSimpleRoute (forecast.ts, imported by Today.tsx as '@/logic/vrp')  *)
(*                                                                         *)
(* The depot is point 0 and the stops are the points 1..n in the order of  *)
(* the input.  haversineKm is modelled by a table of distances: it is      *)
(* symmetric and 0 from a point to itself, and the table gives every       *)
(* other pair a distance, equal distances included.  The table of the      *)
(* example holds the haversine distances of its three points in metres     *)
(* (1.1119 km, 4.6092 km, 4.7412 km).                                      *)
(***************************************************************************)
MaxStops == 3
MaxDist == 2

PointPairs(n) == {{a, b} : a \in 0..n, b \in 1..n} \ {{b} : b \in 1..n}

\* depot (34.0,132.0), A (34.01,132.00), B (34.00,132.05)
ExampleTable == ({0, 1} :> 1112) @@ ({0, 2} :> 4609) @@ ({1, 2} :> 4741)

distanceKm(table, a, b) == IF a = b THEN 0 ELSE table[{a, b}]

\* A scan that keeps the last of the nearest stops.
bestIndexLast(table, current, remaining) ==
    CHOOSE i \in DOMAIN remaining :
        /\ \A j \in DOMAIN remaining :
              distanceKm(table, current, remaining[i]) <= distanceKm(table, current, remaining[j])
        /\ \A j \in DOMAIN remaining :
              distanceKm(table, current, remaining[j]) = distanceKm(table, current, remaining[i])
                  => j <= i

\* The for loop: bestIndex is the first index whose distance is below every
\* distance before it and not above any after it.
bestIndexOf(table, current, remaining) ==
    CHOOSE i \in DOMAIN remaining :
        /\ \A j \in 1..(i - 1) :
              distanceKm(table, current, remaining[i]) < distanceKm(table, current, remaining[j])
        /\ \A j \in (i + 1)..Len(remaining) :
              ~(distanceKm(table, current, remaining[j]) < distanceKm(table, current, remaining[i]))

\* remaining.splice(bestIndex, 1)
spliceOut(s, i) == [k \in 1..(Len(s) - 1) |-> IF k < i THEN s[k] ELSE s[k + 1]]

InitRoute ==
    /\ StoresAtRest
    /\ \E n \in 0..MaxStops :
          \E table \in [PointPairs(n) -> 0..MaxDist] \cup
                       (IF n = 2 THEN {ExampleTable} ELSE {}) :
              call = [fn |-> "buildSimpleRoute", pc |-> "loop", table |-> table,
                      candidates |-> [k \in 1..n |-> k],
                      remaining |-> [k \in 1..n |-> k],
                      route |-> <<>>, current |-> 0]

\* One iteration of while (remaining.length > 0).
RoutePickNearest ==
    /\ call.fn = "buildSimpleRoute" /\ call.pc = "loop"
    /\ Len(call.remaining) > 0
    /\ LET bestIndex == bestIndexOf(call.table, call.current, call.remaining)
           next      == call.remaining[bestIndex]
       IN call' = [call EXCEPT
                     !.remaining = spliceOut(call.remaining, bestIndex),
                     !.route = Append(call.route, next),
                     !.current = next]
    /\ UNCHANGED <<now, customers, orders, plans, run>>

\* The loop ends and the route is returned.
RouteReturn ==
    /\ call.fn = "buildSimpleRoute" /\ call.pc = "loop"
    /\ Len(call.remaining) = 0
    /\ call' = [call EXCEPT !.pc = "returned"]
    /\ UNCHANGED <<now, customers, orders, plans, run>>

NextRoute == RoutePickNearest \/ RouteReturn

SpecRoute == InitRoute /\ [][NextRoute]_vars

RouteCalled == call.fn = "buildSimpleRoute"

\* The position before the k-th stop of the route.
C18_Before(k) == IF k = 1 THEN 0 ELSE call.route[k - 1]

\* The stops not placed before the k-th stop of the route.
C18_Unplaced(k) == Range(call.candidates) \ {call.route[j] : j \in 1..(k - 1)}

\* C18: buildSimpleRoute ends after one iteration per stop and returns a
\* permutation of the stops in which every stop is, among the stops not
\* placed before it, at minimum distance from the position before it (the
\* depot for the first), the earlier stop of the input among equals; the
\* example with A at 1.11 km and B at 4.61 km from the depot gives [A, B].
C18_RouteIsNearestNeighbour ==
    /\ [](RouteCalled =>
             /\ Len(call.route) + Len(call.remaining) = Len(call.candidates)
             /\ (call.pc = "returned" =>
                    /\ Len(call.route) = Len(call.candidates)
                    /\ Range(call.route) = Range(call.candidates)
                    /\ \A k \in DOMAIN call.route : \A s \in C18_Unplaced(k) :
                          /\ distanceKm(call.table, C18_Before(k), call.route[k])
                                <= distanceKm(call.table, C18_Before(k), s)
                          /\ distanceKm(call.table, C18_Before(k), call.route[k])
                                = distanceKm(call.table, C18_Before(k), s)
                                => call.route[k] <= s
                    /\ (call.table = ExampleTable => call.route = <<1, 2>>)))
    /\ [][(RouteCalled /\ call.pc = "loop") =>
             \/ Len(call'.remaining) = Len(call.remaining) - 1
             \/ (Len(call.remaining) = 0 /\ call'.pc = "returned")]_vars

\* A route of three stops has been returned in which the second input stop
\* comes first and two stops were equally near at the second choice.
C18_Witness ==
    /\ RouteCalled /\ call.pc = "returned"
    /\ Len(call.route) = 3
    /\ call.route[1] = 2
    /\ distanceKm(call.table, 2, 1) = distanceKm(call.table, 2, 3)
    /\ call.route = <<2, 1, 3>>

(***************************************************************************)
(* The reception page (src/unnamed/part_002): onSubmitClick in stages      *)
(***************************************************************************)
\* fallbackNextISO: lastISO plus max(7, floor(capacity * 0.85 / (usage / 30)))
\* days, the quotient being 51 capacity / 2 usage; -1 models undefined.
fallbackNextISO(lastISO, tankCapacity, monthlyUsage) ==
    IF lastISO = -1 \/ tankCapacity <= 0 \/ monthlyUsage <= 0 THEN -1
    ELSE LET q    == (tankCapacity * 51) \div (monthlyUsage * 2)
             days == IF q < 7 THEN 7 ELSE q
         IN addDaysYmd(lastISO, days)

\* What a POST to /api/predict-next can come to: a usable answer, a status
\* outside 2xx, a body that is not JSON, a body without next and nextDate, a
\* next that is not YYYY-MM-DD, a rejected fetch (network error, no endpoint).
ApiOutcomes ==
    {"ok", "http error", "json parse error", "no next", "invalid next", "fetch failed"}

\* The next date of a usable answer.
ApiNextDates == {20250301}

\* predictNextByApi: the date of a usable answer, null (-1) otherwise.
predictNextByApi(outcome, next) == IF outcome = "ok" THEN next ELSE -1

\* The form of the page: tank type, capacity, monthly usage, selected days.
FormTankTypes == {"A", "B"}
FormCapacities == {0, 200}
FormUsages == {0, 100}
FormDates == {<<20250110>>, <<20250110, 20250215>>}

\* The stores before a registration: the first customer with no delivery or
\* three deliveries in 2024; the second without any order, and with or
\* without a plan entry that a rejected purgePlansForCustomer left behind.
InitSubmit ==
    /\ now = 20250220
    /\ customers = <<[id |-> 1, tankType |-> "A"], [id |-> 2, tankType |-> "none"]>>
    /\ \E h1 \in {<<>>, <<20240105, 20240210, 20240308>>} : orders = OrderRows(1, h1)
    /\ plans \in {{}, {PlanRecord(20250305, 2)}}
    /\ run = [r \in Runs |-> IdleRun]
    /\ call = NoCall

\* onSubmitClick up to stage A: not while a submit is in progress;
\* ensureCustomerByForm updates the customer the form was opened for.
SubmitClick ==
    /\ call = NoCall
    /\ \E tankType \in FormTankTypes, tankCapacity \in FormCapacities,
          usage \in FormUsages, dates \in FormDates :
          /\ \A k \in DOMAIN dates :
                /\ dates[k] <= now
                /\ Len(SelectSeq(orders, LAMBDA o : o.customerId = customers[1].id
                                                    /\ o.date = dates[k])) < MaxRegistered
          /\ customers' = [customers EXCEPT ![1].tankType = tankType]
          /\ call' = [fn |-> "onSubmitClick", pc |-> "predict", customerId |-> customers[1].id,
                      tankType |-> tankType, tankCapacity |-> tankCapacity, usage |-> usage,
                      dates |-> dates, apiResults |-> <<>>, predictedList |-> <<>>]
    /\ UNCHANGED <<now, orders, plans, run>>

\* Stage A for one selected day: nextISO = apiNext ?? fallback.
SubmitPredict ==
    /\ call.fn = "onSubmitClick" /\ call.pc = "predict"
    /\ Len(call.predictedList) < Len(call.dates)
    /\ \E outcome \in ApiOutcomes, next \in ApiNextDates :
          LET iso      == call.dates[Len(call.predictedList) + 1]
              apiNext  == predictNextByApi(outcome, next)
              fallback == fallbackNextISO(iso, call.tankCapacity, call.usage)
              nextISO  == IF apiNext # -1 THEN apiNext ELSE fallback
          IN call' = [call EXCEPT
                        !.apiResults = Append(call.apiResults, outcome),
                        !.predictedList =
                            Append(call.predictedList,
                                   [iso |-> iso, nextEstimatedAt |-> nextISO])]
    /\ UNCHANGED <<now, customers, orders, plans, run>>

\* Stage B commits: one order per selected day; stage C calls the batch.
SubmitWriteOrders(r) ==
    /\ call.fn = "onSubmitClick" /\ call.pc = "predict"
    /\ Len(call.predictedList) = Len(call.dates)
    /\ run[r].pc = "idle"
    /\ orders' = orders \o
                 [k \in DOMAIN call.predictedList |->
                     [customerId |-> call.customerId,
                      date |-> call.predictedList[k].iso,
                      nextEstimatedAt |-> call.predictedList[k].nextEstimatedAt]]
    /\ call' = [call EXCEPT !.pc = "batch"]
    /\ run' = [run EXCEPT ![r] =
                 enterBatch([horizonDays |-> 370, fallbackCycleDays |-> 42,
                             maxYearsBack |-> 3])]
    /\ UNCHANGED <<now, customers, plans>>

\* Stage B rejects: the transaction leaves no order and the outer catch ends
\* the handler.
SubmitWriteRejected ==
    /\ call.fn = "onSubmitClick" /\ call.pc = "predict"
    /\ Len(call.predictedList) = Len(call.dates)
    /\ call' = NoCall
    /\ UNCHANGED <<now, customers, orders, plans, run>>

NextSubmit ==
    \/ SubmitClick
    \/ SubmitPredict
    \/ SubmitWriteRejected
    \/ \E r \in Runs :
          \/ SubmitWriteOrders(r)
          \/ ReadCustomers(r)
          \/ ReadHistory(r)
          \/ QueryFuturePlans(r)
          \/ DeleteFuturePlans(r)
          \/ UpsertForecast(r)
          \/ ReadLast(r)
          \/ QueryAllPlans(r)
          \/ DeleteAllPlans(r)
          \/ UpsertFallback(r)
          \/ RunReturn(r)
          \/ StoreRejects(r)
          \/ RunRejected(r)

SpecSubmit == InitSubmit /\ [][NextSubmit]_vars

\* What the FallbackCycler gives for a last delivery on iso and the tank of
\* the form.
C19_CyclerNext(iso) ==
    predictNextDatePhaseAligned(
        [hasCycleDays |-> FALSE, cycleDays |-> 0, tankType |-> call.tankType,
         lastDate |-> iso, historyDates |-> <<>>, today |-> now, horizonDays |-> 370])

\* After a failed remote call the registration goes on: its days are in the
\* orders when the batch is running, and the batch is running.
C19_RegistrationGoesOn ==
    /\ [][(call.fn = "onSubmitClick" /\ call.pc = "predict" /\ call' # call) =>
             \/ call'.fn = "onSubmitClick"
             \/ Len(call.predictedList) = Len(call.dates)]_vars
    /\ [](call.fn = "onSubmitClick" /\ call.pc = "batch" =>
             /\ \A k \in DOMAIN call.dates :
                   \E i \in DOMAIN orders :
                      /\ orders[i].customerId = call.customerId
                      /\ orders[i].date = call.dates[k]
             /\ \E r \in Runs : run[r].pc # "idle")

\* C19: when the remote predict-next call fails in any way, the next date
\* the caller uses is the one of the FallbackCycler (fixed-cycle stepping
\* from the last delivery date past today), and the registration goes on.
C19_FailedRemoteUsesFallbackCycler ==
    [](call.fn = "onSubmitClick" =>
          \A k \in DOMAIN call.predictedList :
             call.apiResults[k] # "ok" =>
                call.predictedList[k].nextEstimatedAt = C19_CyclerNext(call.predictedList[k].iso))

(***************************************************************************)
(* The plan page (Plan.tsx): the batch runs its mount starts               *)
(*                                                                         *)
(* Nothing in buildMonthlyPlanByThreshold or in its callers keeps a second *)
(* run from starting while one is in flight.  On mount the first effect    *)
(* calls reload() (line 100), whose first statement awaits the batch       *)
(* (line 55), and the second effect awaits the batch itself (line 115),    *)
(* then reload() (line 116), then dispatches plan-refresh (line 117),      *)
(* whose handler calls reload() again (line 97).                           *)
(***************************************************************************)
PlanRuns == {"reload", "effect"}

DefaultOptions == [horizonDays |-> 370, fallbackCycleDays |-> 42, maxYearsBack |-> 3]

\* Is the batch run rec between its call and its return?
InFlight(rec) == rec.pc \notin {"idle", "done"}

\* The customers and orders of InitFail, the plans empty or holding an entry
\* of the second customer from an earlier run, and no run of the page yet.
InitPlanPage ==
    /\ now \in ClockDays /\ \A d \in ClockDays : now <= d
    /\ \E tanks \in TankInputs, h1 \in FirstHistories, h2 \in SecondHistories :
          /\ Len(h1) <= 3
          /\ customers = <<[id |-> 1, tankType |-> tanks[1]],
                           [id |-> 2, tankType |-> tanks[2]]>>
          /\ orders = OrderRows(1, h1) \o OrderRows(2, h2)
    /\ plans \in {{}, {PlanRecord(20250305, 2)}}
    /\ run = [r \in PlanRuns |-> IdleRun]
    /\ call = NoCall

\* The page mounts: both effects run, each up to the first await of its
\* batch run.
PlanMount ==
    /\ call = NoCall
    /\ \A r \in PlanRuns : run[r].pc = "idle"
    /\ run' = [r \in PlanRuns |-> enterBatch(DefaultOptions)]
    /\ call' = [fn |-> "Plan", pc |-> "recompute"]
    /\ UNCHANGED <<now, customers, orders, plans>>

\* reload() of the first effect goes on after its batch run (lines 57-93).
PlanReloadContinues ==
    /\ call.fn = "Plan"
    /\ run["reload"].pc = "done"
    /\ run' = [run EXCEPT !["reload"] = IdleRun]
    /\ UNCHANGED <<now, customers, orders, plans, call>>

\* The second effect goes on after its batch run: await reload() (line 116).
PlanEffectReloads ==
    /\ call.fn = "Plan" /\ call.pc = "recompute"
    /\ run["effect"].pc = "done"
    /\ run' = [run EXCEPT !["effect"] = enterBatch(DefaultOptions)]
    /\ call' = [call EXCEPT !.pc = "reload"]
    /\ UNCHANGED <<now, customers, orders, plans>>

\* The reload() of the second effect has returned: plan-refresh is
\* dispatched (line 117) and its handler calls reload() (line 97).
PlanEffectDispatches ==
    /\ call.fn = "Plan" /\ call.pc = "reload"
    /\ run["effect"].pc = "done"
    /\ run' = [run EXCEPT !["effect"] = enterBatch(DefaultOptions)]
    /\ call' = [call EXCEPT !.pc = "handler"]
    /\ UNCHANGED <<now, customers, orders, plans>>

\* The reload() of the handler has returned.
PlanHandlerReturns ==
    /\ call.fn = "Plan" /\ call.pc = "handler"
    /\ run["effect"].pc = "done"
    /\ run' = [run EXCEPT !["effect"] = IdleRun]
    /\ call' = [call EXCEPT !.pc = "shown"]
    /\ UNCHANGED <<now, customers, orders, plans>>

NextPlanPage ==
    \/ PlanMount
    \/ PlanReloadContinues
    \/ PlanEffectReloads
    \/ PlanEffectDispatches
    \/ PlanHandlerReturns
    \/ \E r \in PlanRuns :
          \/ ReadCustomers(r)
          \/ ReadHistory(r)
          \/ QueryFuturePlans(r)
          \/ DeleteFuturePlans(r)
          \/ UpsertForecast(r)
          \/ ReadLast(r)
          \/ QueryAllPlans(r)
          \/ DeleteAllPlans(r)
          \/ UpsertFallback(r)

SpecPlanPage == InitPlanPage /\ [][NextPlanPage]_vars

\* C20: at any time at most one run of the reconciliation batch is in
\* flight; no caller starts buildMonthlyPlanByThreshold while an earlier run
\* has not yet completed.
C20_AtMostOneRunInFlight ==
    \A r1, r2 \in DOMAIN run : (InFlight(run[r1]) /\ InFlight(run[r2])) => r1 = r2

(***************************************************************************)
(* Two deletions on the history page, their batch runs overlapping         *)
(*                                                                         *)
(* deleteByDateAndCustomer and deleteAllByCustomer (History.tsx 128-157)   *)
(* are not kept from running while an earlier click is still awaiting its  *)
(* batch.  Each click has its own run of the batch; call holds, per click, *)
(* the position of the handler and the customer it is about, and, as a     *)
(* record of the past, whether orders were deleted while a run was in      *)
(* flight.  No store operation rejects in this specification.              *)
(***************************************************************************)
OverlapRuns == {"first", "second"}

InitOverlap ==
    /\ now \in ClockDays /\ \A d \in ClockDays : now <= d
    /\ \E tanks \in TankInputs, h2 \in {<<20221103>>, <<20250115>>} :
          /\ customers = <<[id |-> 1, tankType |-> tanks[1]],
                           [id |-> 2, tankType |-> tanks[2]]>>
          /\ orders = OrderRows(1, <<20240308, 20240105, 20240210>>) \o OrderRows(2, h2)
    /\ plans = {}
    /\ run = [r \in OverlapRuns |-> IdleRun]
    /\ call = [fn |-> "History",
               pc |-> [r \in OverlapRuns |-> "none"],
               customerId |-> [r \in OverlapRuns |-> 0],
               changed |-> FALSE]

\* A click: the orders of the customer, of one date or of every date, are
\* deleted; the handler then awaits purgePlansForCustomer.
OverlapDeleteOrders(r) ==
    /\ call.pc[r] = "none"
    /\ \E k \in 1..Len(orders), all \in BOOLEAN :
          LET customerId == orders[k].customerId
              dateISO    == orders[k].date
              hit(o)     == /\ o.customerId = customerId
                            /\ (all \/ o.date = dateISO)
          IN /\ all \/ dateISO \in DeleteDays
             /\ orders' = SelectSeq(orders, LAMBDA o : ~hit(o))
             /\ call' = [call EXCEPT
                           !.pc[r] = "purge",
                           !.customerId[r] = customerId,
                           !.changed = call.changed \/ \E q \in OverlapRuns : InFlight(run[q])]
    /\ UNCHANGED <<now, customers, plans, run>>

\* await purgePlansForCustomer(customerId); the handler then calls the batch.
OverlapPurgePlans(r) ==
    /\ call.pc[r] = "purge"
    /\ plans' = purgePlansForCustomer(call.customerId[r], "all", now)
    /\ run' = [run EXCEPT ![r] = enterBatch(DefaultOptions)]
    /\ call' = [call EXCEPT !.pc[r] = "batch"]
    /\ UNCHANGED <<now, customers, orders>>

\* The batch returns to the handler, which dispatches oil-refresh.
OverlapReturn(r) ==
    /\ call.pc[r] = "batch"
    /\ run[r].pc = "done"
    /\ run' = [run EXCEPT ![r] = IdleRun]
    /\ call' = [call EXCEPT !.pc[r] = "returned"]
    /\ UNCHANGED <<now, customers, orders, plans>>

NextOverlap ==
    \E r \in OverlapRuns :
        \/ OverlapDeleteOrders(r)
        \/ OverlapPurgePlans(r)
        \/ OverlapReturn(r)
        \/ ReadCustomers(r)
        \/ ReadHistory(r)
        \/ QueryFuturePlans(r)
        \/ DeleteFuturePlans(r)
        \/ UpsertForecast(r)
        \/ ReadLast(r)
        \/ QueryAllPlans(r)
        \/ DeleteAllPlans(r)
        \/ UpsertFallback(r)

SpecOverlap == InitOverlap /\ [][NextOverlap]_vars

\* Both handlers have returned: both runs are completed.
C21_BothCompleted == \A r \in OverlapRuns : call.pc[r] = "returned"

\* Some customer's plan entries with date >= today are not the output of
\* the forecast or the fallback for the orders as they are now.
C21_Unreconciled ==
    \E k \in 1..Len(customers) :
        futureDatesOf(customers[k].id, now)
            # C12_FutureOf(customers[k], enterBatch(DefaultOptions))

\* C21: two runs of the batch whose per-customer steps interleave are not
\* safe against each other: an interleaving leaves, with both runs
\* completed, a customer whose plan entries with date >= today differ from
\* the output for the current orders (the witness); and this happens only
\* when orders changed while a run was in flight, the run having read the
\* history before the change.
C21_InterleavedRunsUnsafe ==
    (C21_BothCompleted /\ C21_Unreconciled) => call.changed

\* Both runs are completed and a customer's future entries are not the
\* output for the current orders.
C21_Witness ==
    /\ C21_BothCompleted
    /\ C21_Unreconciled

(***************************************************************************)
(* One run over a plan store that holds entries of every customer          *)
(*                                                                         *)
(* The plan store holds, of an earlier day, entries before and after today *)
(* for both customers and for customer 3, who is not in the customer       *)
(* store: a run that was in flight during importAllFromData upserts        *)
(* entries of a customer the import has removed.                           *)
(***************************************************************************)
FramePlans ==
    {PlanRecord(20250110, 1), PlanRecord(20250305, 1),
     PlanRecord(20250110, 2), PlanRecord(20250401, 2),
     PlanRecord(20250110, 3), PlanRecord(20250305, 3)}

InitFrame ==
    /\ now \in ClockDays /\ \A d \in ClockDays : now <= d
    /\ \E tanks \in TankInputs, h1 \in FirstHistories, h2 \in SecondHistories :
          /\ Len(h1) <= 3
          /\ customers = <<[id |-> 1, tankType |-> tanks[1]],
                           [id |-> 2, tankType |-> tanks[2]]>>
          /\ orders = OrderRows(1, h1) \o OrderRows(2, h2)
    /\ plans \in {FramePlans, {p \in FramePlans : p.customerId # 3}}
    /\ run = [r \in Runs |-> IdleRun]
    /\ call = NoCall

NextFrame ==
    \E r \in Runs :
        \/ StartRun(r)
        \/ ReadCustomers(r)
        \/ ReadHistory(r)
        \/ QueryFuturePlans(r)
        \/ DeleteFuturePlans(r)
        \/ UpsertForecast(r)
        \/ ReadLast(r)
        \/ QueryAllPlans(r)
        \/ DeleteAllPlans(r)
        \/ UpsertFallback(r)
        \/ RunReturn(r)

SpecFrame == InitFrame /\ [][NextFrame]_vars

\* The plan entries created, overwritten or deleted by a step.
C22_Changed == (plans \ plans') \cup (plans' \ plans)

\* C22: the step that reconciles customer c creates, overwrites or deletes
\* only plan entries whose customerId is c; mid-batch the customers already
\* processed hold the future entries of their latest forecast or fallback,
\* and every other customer, the one absent from the customer store
\* included, keeps the entries it had.
C22_StepTouchesOwnCustomerOnly ==
    /\ [][\A p \in C22_Changed :
             \E r \in Runs : /\ InStep(r)
                             /\ p.customerId = currentCustomer(run[r]).id]_vars
    /\ [](\A r \in Runs : \A c \in Reconciled(r) :
             {p.dateISO : p \in {q \in plans : q.customerId = c.id /\ q.dateISO >= run[r].today}}
                 = C12_FutureOf(c, run[r]))
    /\ []({p \in plans : \A k \in 1..Len(customers) : p.customerId # customers[k].id}
             \in {{p \in FramePlans : p.customerId = 3}, {}})

\* The first customer has been reconciled and holds new entries, the
\* second is in its step, and the entries of customer 3 and the earlier
\* entries of the second customer are all still there.
C22_Witness ==
    \E r \in Runs :
        /\ run[r].pc = "history" /\ run[r].i = 2
        /\ \E p \in plans : p.customerId = 1 /\ p \notin FramePlans
        /\ PlanRecord(20250305, 1) \notin plans
        /\ {p \in FramePlans : p.customerId \in {2, 3}} \subseteq plans

(***************************************************************************)
(* The operations that write to the plan store                             *)
(***************************************************************************)
\* The backups that are restored: customers and orders (the plans of a
\* backup are not used).
BackupInputs ==
    {[customers |-> <<[id |-> 1, tankType |-> "B"]>>,
      orders |-> OrderRows(1, <<20240105, 20240210>>)],
     [customers |-> <<[id |-> 1, tankType |-> "A"], [id |-> 2, tankType |-> "none"]>>,
      orders |-> OrderRows(2, <<20221103>>)]}

\* importAllFromData: one transaction clears customers, orders and plans and
\* adds the customers and orders of the backup; the batch is then called.
ImportBackup(r) ==
    /\ AllIdle /\ call = NoCall
    /\ \E data \in BackupInputs :
          /\ <<customers, orders>> # <<data.customers, data.orders>>
          /\ customers' = data.customers
          /\ orders' = data.orders
    /\ plans' = {}
    /\ run' = [run EXCEPT ![r] = enterBatch(DefaultOptions)]
    /\ call' = [fn |-> "importAllFromData", pc |-> "batch"]
    /\ UNCHANGED now

NextWriters ==
    \/ \E r \in Runs :
          \/ StartDefaultRun(r)
          \/ ReadCustomers(r)
          \/ ReadHistory(r)
          \/ QueryFuturePlans(r)
          \/ DeleteFuturePlans(r)
          \/ UpsertForecast(r)
          \/ ReadLast(r)
          \/ QueryAllPlans(r)
          \/ DeleteAllPlans(r)
          \/ UpsertFallback(r)
          \/ RunReturn(r)
          \/ HistoryPurgePlans(r)
          \/ ImportBackup(r)
    \/ HistoryDeleteOrders

SpecWriters == InitFail /\ [][NextWriters]_vars

\* C23: every change to the plan store is made by a step of the
\* reconciliation batch; history deletion with its purge, backup import and
\* cloud pull create, overwrite or delete no plan entry.
C23_OnlyBatchWritesPlans ==
    [][plans' # plans => \E r \in Runs : InStep(r)]_vars

(***************************************************************************)
(* The batch run twice in a row                                            *)
(*                                                                         *)
(* call counts the completed runs and keeps, as a record of the past, the  *)
(* options of the first run and the plan store it left.                    *)
(***************************************************************************)
InitTwice ==
    /\ now \in ClockDays /\ \A d \in ClockDays : now <= d
    /\ \E tanks \in TankInputs, h1 \in FirstHistories, h2 \in SecondHistories :
          /\ Len(h1) <= 3
          /\ customers = <<[id |-> 1, tankType |-> tanks[1]],
                           [id |-> 2, tankType |-> tanks[2]]>>
          /\ orders = OrderRows(1, h1) \o OrderRows(2, h2)
    /\ plans \in {{}, FramePlans}
    /\ run = [r \in Runs |-> IdleRun]
    /\ call = [fn |-> "twice", completed |-> 0, opts |-> DefaultOptions, left |-> {}]

\* The first call of the batch, and the second with the same options.
TwiceStart(r) ==
    /\ call.completed < 2
    /\ run[r].pc = "idle"
    /\ \E opts \in RunOptions :
          /\ call.completed = 1 => opts = call.opts
          /\ run' = [run EXCEPT ![r] = enterBatch(opts)]
          /\ call' = [call EXCEPT !.opts = opts]
    /\ UNCHANGED <<now, customers, orders, plans>>

\* The batch returns.
TwiceReturn(r) ==
    /\ run[r].pc = "done"
    /\ run' = [run EXCEPT ![r] = IdleRun]
    /\ call' = [call EXCEPT
                  !.completed = call.completed + 1,
                  !.left = IF call.completed = 0 THEN plans ELSE call.left]
    /\ UNCHANGED <<now, customers, orders, plans>>

NextTwice ==
    \E r \in Runs :
        \/ TwiceStart(r)
        \/ TwiceReturn(r)
        \/ ReadCustomers(r)
        \/ ReadHistory(r)
        \/ QueryFuturePlans(r)
        \/ DeleteFuturePlans(r)
        \/ UpsertForecast(r)
        \/ ReadLast(r)
        \/ QueryAllPlans(r)
        \/ DeleteAllPlans(r)
        \/ UpsertFallback(r)

SpecTwice == InitTwice /\ [][NextTwice]_vars

\* C24: reconciliation is idempotent: a second run right after a completed
\* run, with the same orders, customers, today and options, leaves the plan
\* store exactly as the first run left it.
C24_SecondRunChangesNothing ==
    call.completed = 2 => plans = call.left

\* The second run has completed after deleting and upserting entries again,
\* over a store that the first run had changed.
C24_Witness ==
    /\ call.completed = 2
    /\ plans = call.left
    /\ \E p \in plans : p.dateISO >= now /\ p \notin FramePlans
    /\ \E p \in FramePlans : p.customerId \in {1, 2} /\ p \notin plans

(***************************************************************************)
(* buildPlanFromHistory called twice with the same arguments               *)
(*                                                                         *)
(* Between the two calls the clock moves on.  The function reads its       *)
(* arguments only: every new Date in forecast.ts has an argument, and the  *)
(* module keeps no variable between calls.                                 *)
(***************************************************************************)
RepeatHistories == {h \in HistoryInputs : Len(h) <= 3}

\* What a call gives: the PlanResult, or the throw.
planResultOf(historyDates, baseYear, startFromYmd, horizonDays) ==
    IF buildPlanThrows(historyDates, baseYear)
    THEN [threw |-> TRUE]
    ELSE [threw |-> FALSE,
          result |-> buildPlanFromHistory(historyDates, baseYear, startFromYmd, horizonDays)]

InitRepeat ==
    /\ StoresAtRest
    /\ \E h \in RepeatHistories, st \in StartInputs, hz \in HorizonInputs :
          call = [fn |-> "buildPlanFromHistory", pc |-> "twice",
                  historyDates |-> h, baseYear |-> 2024,
                  startFromYmd |-> st, horizonDays |-> hz,
                  results |-> <<>>]

\* A call with the arguments, and its result.
RepeatCall ==
    /\ call.fn = "buildPlanFromHistory" /\ call.pc = "twice"
    /\ Len(call.results) < 2
    /\ call' = [call EXCEPT
                  !.results = Append(call.results,
                                     planResultOf(call.historyDates, call.baseYear,
                                                  call.startFromYmd, call.horizonDays))]
    /\ UNCHANGED <<now, customers, orders, plans, run>>

\* Time passes between the calls.
RepeatTick ==
    /\ call.fn = "buildPlanFromHistory" /\ call.pc = "twice"
    /\ Len(call.results) = 1
    /\ \E d \in ClockDays : d > now /\ now' = d
    /\ UNCHANGED <<customers, orders, plans, run, call>>

NextRepeat == RepeatCall \/ RepeatTick

SpecRepeat == InitRepeat /\ [][NextRepeat]_vars

C26_SingleRunStore ==
    UNION {{PlanRecord(d, customers[k].id) :
               d \in C12_FutureOf(customers[k], enterBatch(DefaultOptions))} :
           k \in 1..Len(customers)}

\* C26: the orders, the customers and today being the same throughout,
\* whenever the overlapping runs that the plan page starts have all
\* completed, whatever the interleaving of their reads, deletes and upserts
\* was, the plan store is the one a single run leaves.
C26_OverlapWithoutChangeIsHarmless ==
    (call.fn = "Plan" /\ \A r \in PlanRuns : ~InFlight(run[r])) =>
        plans = C26_SingleRunStore

\* Both runs of the mount have completed, the effect's run before the
\* reload's, and the store holds dates of both customers.
C26_Witness ==
    /\ call.fn = "Plan" /\ call.pc = "recompute"
    /\ run["effect"].pc = "done" /\ run["reload"].pc = "done"
    /\ \A k \in 1..Len(customers) : \E p \in plans : p.customerId = customers[k].id
    /\ PlanRecord(20250305, 2) \notin plans

(***************************************************************************)
(* The fallback loops, one iteration per step                              *)
(*                                                                         *)
(* db.ts 289-299 and predict.ts 98-131 hold the same two loops:            *)
(*     let next = addDaysYmd(last, cycle)                                  *)
(*     while (next <= today) next = addDaysYmd(next, cycle)                *)
(*     while (next <= end) { put next; next = addDaysYmd(next, cycle) }    *)
(* In the batch the cycle of a customer without tank type is the option    *)
(* fallbackCycleDays, in predict.ts the option cycleDays of any customer;  *)
(* both accept every finite number.  call counts the iterations.           *)
(***************************************************************************)
MaxIterations == 400

LoopFunctions == {"buildMonthlyPlanByThreshold", "predictNextYearPhaseAligned"}
LoopCycleInputs == {-7, 0, 1, 42}
LoopLastInputs == {20250115, 20250301}
LoopHorizonInputs == {-3, 30, 370}

\* The cycle of the loops of fn for the tank type and the number passed.
loopCycleOf(fn, tankType, cycleDays) ==
    IF fn = "buildMonthlyPlanByThreshold"
    THEN cycleDaysFromTank(tankType, cycleDays)
    ELSE cycleOfOpts([hasCycleDays |-> TRUE, cycleDays |-> cycleDays, tankType |-> tankType])

InitLoops ==
    /\ StoresAtRest
    /\ \E fn \in LoopFunctions, tankType \in {"A", "none"}, c \in LoopCycleInputs,
          last \in LoopLastInputs, hz \in LoopHorizonInputs :
          call = [fn |-> fn, pc |-> "called", tankType |-> tankType,
                  last |-> last, today |-> now, end |-> addDaysYmd(now, hz),
                  cycle |-> loopCycleOf(fn, tankType, c),
                  next |-> 0, iterations |-> 0, puts |-> 0]

\* let next = addDaysYmd(last, cycle)
LoopEnter ==
    /\ call.fn \in LoopFunctions /\ call.pc = "called"
    /\ call' = [call EXCEPT !.pc = "skip", !.next = addDaysYmd(call.last, call.cycle)]
    /\ UNCHANGED <<now, customers, orders, plans, run>>

\* One iteration of while (next <= today), or its end.
LoopSkip ==
    /\ call.fn \in LoopFunctions /\ call.pc = "skip"
    /\ call.iterations < MaxIterations
    /\ call' = IF call.next <= call.today
               THEN [call EXCEPT !.next = addDaysYmd(call.next, call.cycle),
                                 !.iterations = call.iterations + 1]
               ELSE [call EXCEPT !.pc = "fill"]
    /\ UNCHANGED <<now, customers, orders, plans, run>>

\* One iteration of while (next <= end), or its end.
LoopFill ==
    /\ call.fn \in LoopFunctions /\ call.pc = "fill"
    /\ call.iterations < MaxIterations
    /\ call' = IF call.next <= call.end
               THEN [call EXCEPT !.next = addDaysYmd(call.next, call.cycle),
                                 !.iterations = call.iterations + 1,
                                 !.puts = call.puts + 1]
               ELSE [call EXCEPT !.pc = "returned"]
    /\ UNCHANGED <<now, customers, orders, plans, run>>

NextLoops == LoopEnter \/ LoopSkip \/ LoopFill

SpecLoops == InitLoops /\ [][NextLoops]_vars

\* C27: the fallback loops finish after finitely many steps for every tank
\* profile, last delivery date and every number passed as cycle or horizon.
\* Each loop adds the same cycle to next until next is past a fixed date, so
\* it finishes if and only if every iteration it runs moves next forward.
C27_FallbackLoopsTerminate ==
    [][(call.fn \in LoopFunctions /\ call.pc \in {"skip", "fill"}
          /\ call'.iterations > call.iterations) => call'.next > call.next]_vars

(***************************************************************************)
(* predictNextYearPhaseAligned next to the fallback branch of the batch    *)
(***************************************************************************)
\* The call of predict.ts with the last delivery, the cycle, today and the
\* horizon that the run rec has for the customer c.
C28_OptsOf(c, rec) ==
    [hasCycleDays |-> TRUE,
     cycleDays |-> C3_Cycle(c.tankType, rec.fallbackCycleDays),
     tankType |-> c.tankType, lastDate |-> C3_Last(c.id), historyDates |-> <<>>,
     today |-> rec.today, horizonDays |-> rec.horizonDays]

C28_ListOf(c, rec) == predictNextYearPhaseAligned(C28_OptsOf(c, rec))

\* C28: for the same last delivery date, cycle, today and horizon the list
\* of predictNextYearPhaseAligned is the list of dates the fallback branch
\* of the batch upserts, in the same order; its first element is the result
\* of predictNextDatePhaseAligned, consecutive elements are cycle days apart
\* and all lie in (today, today + horizon].
C28_YearListIsBatchFallback ==
    \A r \in Runs :
        /\ \A c \in Reconciled(r) :
              IsFallback(c.id, run[r].baseYear) =>
                 LET list == C28_ListOf(c, run[r])
                     opts == C28_OptsOf(c, run[r])
                 IN /\ futureDatesOf(c.id, run[r].today) = Range(list)
                    /\ list # <<>> => list[1] = predictNextDatePhaseAligned(opts)
                    /\ \A k \in 1..(Len(list) - 1) :
                          parseYmd(list[k + 1]) - parseYmd(list[k]) = opts.cycleDays
                    /\ \A k \in 1..Len(list) :
                          /\ list[k] > run[r].today
                          /\ list[k] <= addDaysYmd(run[r].today, run[r].horizonDays)
        /\ run[r].pc = "fbUpsert" =>
              LET c    == currentCustomer(run[r])
                  list == C28_ListOf(c, run[r])
              IN \E j \in 1..Len(list) :
                    /\ list[j] = run[r].next
                    /\ futureDatesOf(c.id, run[r].today) = {list[i] : i \in 1..(j - 1)}

\* A run has completed the fallback of a customer whose first cycle step
\* from the last delivery is not after today, and has upserted at least two
\* dates, the dates of the list.
C28_Witness ==
    \E r \in Runs :
        /\ run[r].pc = "done"
        /\ \E c \in Reconciled(r) :
              /\ IsFallback(c.id, run[r].baseYear)
              /\ Len(C28_ListOf(c, run[r])) >= 2
              /\ addDaysYmd(C3_Last(c.id), C28_OptsOf(c, run[r]).cycleDays) <= run[r].today
              /\ futureDatesOf(c.id, run[r].today) = Range(C28_ListOf(c, run[r]))

(***************************************************************************)
(* The predict-next endpoint and the request of the reception page         *)
(*                                                                         *)
(* A JSON body is a record of the fields it has.                           *)
(***************************************************************************)
\* seasonOf(month) of the reception page.
seasonOf(month) ==
    IF month \in {12, 1, 2} THEN "winter"
    ELSE IF month \in {6, 7, 8} THEN "summer"
    ELSE "other"

\* The body that predictNextByApi posts (part_002 301-308 and 62-66).
predictRequestBody(tankType, tankCapacity, monthlyUsage, iso) ==
    [name |-> "name", capacity |-> tankCapacity, usage |-> monthlyUsage,
     tankType |-> tankType, lastDate |-> iso, season |-> seasonOf(MonthOf(iso))]

\* addDaysJst of the endpoint.
addDaysJst(ymd, days) == addDaysYmd(ymd, days)

\* onRequestPost: the status and the JSON of the answer to a body; a
\* cycleDays field, where a body has one, holds a finite number.
onRequestPost(body) ==
    IF \/ "lastDate" \notin DOMAIN body
       \/ ~ISO_YMD(body.lastDate)
       \/ "cycleDays" \notin DOMAIN body
    THEN [status |-> 400, ok |-> FALSE, next |-> -1]
    ELSE [status |-> 200, ok |-> TRUE, next |-> addDaysJst(body.lastDate, body.cycleDays)]

\* predictNextByApi on an answer: null (-1) unless the status is 2xx and next
\* is an ISO date.
apiNextOf(response) ==
    IF response.status \in 200..299 /\ response.next # -1 /\ ISO_YMD(response.next)
    THEN response.next
    ELSE -1

RequestDates == {20241228, 20250110, 20250215, 20250620, 20250915}

InitEndpoint ==
    /\ StoresAtRest
    /\ \E tankType \in {"A", "B", "C"}, tankCapacity \in FormCapacities,
          usage \in FormUsages, iso \in RequestDates :
          call = [fn |-> "predictNextByApi", pc |-> "called",
                  body |-> predictRequestBody(tankType, tankCapacity, usage, iso),
                  response |-> [status |-> 0, ok |-> FALSE, next |-> -1],
                  apiNext |-> -1]

\* The endpoint answers the request.
EndpointAnswers ==
    /\ call.fn = "predictNextByApi" /\ call.pc = "called"
    /\ call' = [call EXCEPT !.pc = "answered", !.response = onRequestPost(call.body)]
    /\ UNCHANGED <<now, customers, orders, plans, run>>

\* predictNextByApi reads the answer and returns.
ClientReadsAnswer ==
    /\ call.fn = "predictNextByApi" /\ call.pc = "answered"
    /\ call' = [call EXCEPT !.pc = "returned", !.apiNext = apiNextOf(call.response)]
    /\ UNCHANGED <<now, customers, orders, plans, run>>

NextEndpoint == EndpointAnswers \/ ClientReadsAnswer

SpecEndpoint == InitEndpoint /\ [][NextEndpoint]_vars

\* C29: the request of the registration flow passes the endpoint's input
\* validation, so for a registered delivery date in ISO form the endpoint
\* answers {ok: true, next} with status 200 rather than {ok: false} with
\* status 400.
C29_RequestPassesValidation ==
    (call.fn = "predictNextByApi" /\ call.pc \in {"answered", "returned"}
        /\ ISO_YMD(call.body.lastDate)) =>
        /\ call.response.status = 200
        /\ call.response.ok
        /\ ISO_YMD(call.response.next)

(***************************************************************************)
(* applyPlanAdjustment (predict.ts)                                        *)
(***************************************************************************)
MaxAdjustLen == 2

\* list.filter(d => typeof d === 'string' && ISO_YMD.test(d))
validDatesIn(list) == SelectSeq(list, LAMBDA d : ISO_YMD(d))

\* An adjustment that removes removeDates after it has added addDates.
applyPlanAdjustmentRemoveLast(plannedDates, addDates, removeDates) ==
    SetToSortedSeq((Range(validDatesIn(plannedDates)) \cup Range(validDatesIn(addDates)))
                      \ Range(validDatesIn(removeDates)))

\* applyPlanAdjustment(plannedDates, {addDates, removeDates}): the dates of
\* base outside removeSet, then those of addSet, in a Set; then sort().
applyPlanAdjustment(plannedDates, addDates, removeDates) ==
    LET removeSet == Range(validDatesIn(removeDates))
        addSet    == Range(validDatesIn(addDates))
        base      == validDatesIn(plannedDates)
        kept      == Range(SelectSeq(base, LAMBDA d : d \notin removeSet))
        outSet    == kept \cup addSet
    IN SetToSortedSeq(outSet)

AdjustDates == {-1, 20241228, 20250110}

InitAdjust ==
    /\ StoresAtRest
    /\ \E p \in SeqsUpTo(AdjustDates, MaxAdjustLen), a \in SeqsUpTo(AdjustDates, MaxAdjustLen),
          rm \in SeqsUpTo(AdjustDates, MaxAdjustLen) :
          call = [fn |-> "applyPlanAdjustment", pc |-> "called",
                  plannedDates |-> p, addDates |-> a, removeDates |-> rm,
                  result |-> <<>>, again |-> <<>>]

\* The call returns.
AdjustReturn ==
    /\ call.fn = "applyPlanAdjustment" /\ call.pc = "called"
    /\ call' = [call EXCEPT
                  !.pc = "returned",
                  !.result = applyPlanAdjustment(call.plannedDates, call.addDates,
                                                 call.removeDates)]
    /\ UNCHANGED <<now, customers, orders, plans, run>>

\* The same adjustment is applied to the result.
AdjustAgain ==
    /\ call.fn = "applyPlanAdjustment" /\ call.pc = "returned"
    /\ call' = [call EXCEPT
                  !.pc = "reapplied",
                  !.again = applyPlanAdjustment(call.result, call.addDates,
                                                call.removeDates)]
    /\ UNCHANGED <<now, customers, orders, plans, run>>

NextAdjust == AdjustReturn \/ AdjustAgain

SpecAdjust == InitAdjust /\ [][NextAdjust]_vars

\* The result is ascending without duplicates and holds every valid date of
\* addDates; applied to its own result the adjustment returns the same list.
C30_SortedWithAddsAndStable ==
    /\ call.pc \in {"returned", "reapplied"} =>
          /\ \A i \in 1..(Len(call.result) - 1) : call.result[i] < call.result[i + 1]
          /\ Range(validDatesIn(call.addDates)) \subseteq Range(call.result)
    /\ call.pc = "reapplied" => call.again = call.result

\* C30 (as amended): applyPlanAdjustment returns a duplicate-free, ascending
\* list that contains every valid date of addDates, contains no date of
\* removeDates except those that are also valid dates of addDates, and
\* otherwise holds exactly the valid dates of plannedDates; applying the
\* same adjustment to its own result returns the same list.
C30_AddWinsOverRemove ==
    call.fn = "applyPlanAdjustment" =>
        /\ C30_SortedWithAddsAndStable
        /\ call.pc \in {"returned", "reapplied"} =>
              Range(call.result) =
                  (Range(validDatesIn(call.plannedDates)) \ Range(validDatesIn(call.removeDates)))
                      \cup Range(validDatesIn(call.addDates))

\* C30 as stated: the result contains no date of removeDates.
C30_NoRemovedDate ==
    call.fn = "applyPlanAdjustment" =>
        /\ C30_SortedWithAddsAndStable
        /\ call.pc \in {"returned", "reapplied"} =>
              /\ Range(call.result) \cap Range(call.removeDates) = {}
              /\ Range(call.result) \ Range(validDatesIn(call.addDates))
                    = Range(validDatesIn(call.plannedDates))
                         \ (Range(call.removeDates) \cup Range(validDatesIn(call.addDates)))

\* The adjustment has been applied twice to a plan with a duplicate-free
\* result of two dates, one kept from the plan and one that is both added
\* and removed.
C30_Witness ==
    /\ call.fn = "applyPlanAdjustment" /\ call.pc = "reapplied"
    /\ Len(call.result) = 2
    /\ \E d \in Range(call.result) :
          d \in Range(call.addDates) /\ d \in Range(call.removeDates)
    /\ \E d \in Range(call.result) : d \in Range(call.plannedDates) /\ d \notin Range(call.addDates)
    /\ -1 \in Range(call.plannedDates)

=============================================================================
